---- MODULE Spec2Model ----
(***************************************************************************)
(* A model of codemap's symbol extraction engine (scanner/astgrep.go):     *)
(* the two-pass scan ScanDirectoryV2 (container pass, symbol pass, symbol  *)
(* assembly, conversion of the per-file map into the result slice), the    *)
(* scope resolver findContainingScope/findEndLine, the rule-id tables      *)
(* determineRole/determineKind and the text-driven name extractors.        *)
(*                                                                         *)
(* Go strings are TLA+ strings.  Offsets are 0-based as in Go; the helpers *)
(* below give Go's strings package its meaning on them.                    *)
(***************************************************************************)
EXTENDS Integers, Sequences, FiniteSets, TLC

(***************************************************************************)
(* Go's strings package, as used by the extractors                         *)
(***************************************************************************)

\* s[a:b]
Slice(s, a, b) == SubSeq(s, a + 1, b)

\* s[a:]
From(s, a) == SubSeq(s, a + 1, Len(s))

\* s[i], as a one-character string
At(s, i) == SubSeq(s, i + 1, i + 1)

HasPrefix(s, p) == Len(p) <= Len(s) /\ SubSeq(s, 1, Len(p)) = p

HasSuffix(s, p) == Len(p) <= Len(s) /\ SubSeq(s, Len(s) - Len(p) + 1, Len(s)) = p

TrimPrefix(s, p) == IF HasPrefix(s, p) THEN From(s, Len(p)) ELSE s

TrimSuffix(s, p) == IF HasSuffix(s, p) THEN Slice(s, 0, Len(s) - Len(p)) ELSE s

\* the least element of a non-empty set of offsets
MinOf(S) == CHOOSE i \in S : \A j \in S : i <= j

\* the greatest element of a non-empty set of offsets
MaxOf(S) == CHOOSE i \in S : \A j \in S : i >= j

\* the offsets at which sub occurs in s
Occurrences(s, sub) ==
    {i \in 0..(Len(s) - Len(sub)) : Slice(s, i, i + Len(sub)) = sub}

\* strings.Index: offset of the first occurrence of sub in s, -1 if none
Index(s, sub) ==
    IF Occurrences(s, sub) = {} THEN -1 ELSE MinOf(Occurrences(s, sub))

\* strings.LastIndex
LastIndex(s, sub) ==
    IF Occurrences(s, sub) = {} THEN -1 ELSE MaxOf(Occurrences(s, sub))

\* strings.Contains
Contains(s, sub) == Occurrences(s, sub) # {}

\* strings.IndexAny, and the loop "for i, c := range s { if c == ... }":
\* offset of the first character of s that is in chars, -1 if none
IndexAny(s, chars) ==
    LET hits == {i \in 0..(Len(s) - 1) : At(s, i) \in chars}
    IN  IF hits = {} THEN -1 ELSE MinOf(hits)

\* the white space strings.TrimSpace and strings.Fields cut at: the characters
\* of unicode.IsSpace, which are the blank, \t, \n, \r, \f, the vertical tab
\* U+000B, U+0085, U+00A0 and U+1680; its remaining characters (U+2000 to
\* U+200A, U+2028, U+2029, U+202F, U+205F, U+3000) cannot be written in a
\* string of this module, so that no text holds one
Space == {" ", "\t", "\n", "\r", "\f", "", "", " ", " "}

RECURSIVE TrimLeft(_, _)
TrimLeft(s, cutset) ==
    IF s # "" /\ At(s, 0) \in cutset THEN TrimLeft(From(s, 1), cutset) ELSE s

RECURSIVE TrimRight(_, _)
TrimRight(s, cutset) ==
    IF s # "" /\ At(s, Len(s) - 1) \in cutset
    THEN TrimRight(Slice(s, 0, Len(s) - 1), cutset)
    ELSE s

\* strings.Trim
Trim(s, cutset) == TrimRight(TrimLeft(s, cutset), cutset)

\* strings.TrimSpace
TrimSpace(s) == Trim(s, Space)

RECURSIVE Fields(_)
\* strings.Fields: the maximal runs of non-space characters of s, in order
Fields(s) ==
    LET t == TrimLeft(s, Space)
        e == IndexAny(t, Space)
    IN  IF t = "" THEN << >>
        ELSE IF e < 0 THEN << t >>
        ELSE << Slice(t, 0, e) >> \o Fields(From(t, e))

RECURSIVE Split(_, _)
\* strings.Split / bytes.Split with a non-empty separator
Split(s, sep) ==
    LET i == Index(s, sep)
    IN  IF i < 0 THEN << s >>
        ELSE << Slice(s, 0, i) >> \o Split(From(s, i + Len(sep)), sep)

RECURSIVE Count(_, _)
\* strings.Count with a non-empty separator
Count(s, sub) ==
    LET i == Index(s, sub)
    IN  IF i < 0 THEN 0 ELSE 1 + Count(From(s, i + Len(sub)), sub)

Lower == {"a", "b", "c", "d", "e", "f", "g", "h", "i", "j", "k", "l", "m",
          "n", "o", "p", "q", "r", "s", "t", "u", "v", "w", "x", "y", "z"}

Upper == {"A", "B", "C", "D", "E", "F", "G", "H", "I", "J", "K", "L", "M",
          "N", "O", "P", "Q", "R", "S", "T", "U", "V", "W", "X", "Y", "Z"}

Digit == {"0", "1", "2", "3", "4", "5", "6", "7", "8", "9"}

RECURSIVE AllIn(_, _)
\* every character of s is in chars
AllIn(s, chars) == s = "" \/ (At(s, 0) \in chars /\ AllIn(From(s, 1), chars))

\* isValidIdentifier: [A-Za-z_#][A-Za-z0-9_]*
isValidIdentifier(s) ==
    /\ s # ""
    /\ At(s, 0) \in Lower \cup Upper \cup {"_", "#"}
    /\ AllIn(From(s, 1), Lower \cup Upper \cup Digit \cup {"_"})

(***************************************************************************)
(* Rule-id tables                                                          *)
(***************************************************************************)

RoleDefinition == "definition"
RoleReference == "reference"

KindImport == "import"
KindFunction == "function"
KindMethod == "method"
KindClass == "class"
KindInterface == "interface"
KindType == "type"
KindEnum == "enum"
KindNamespace == "namespace"
KindConstant == "constant"
KindVariable == "variable"
KindField == "field"
KindProperty == "property"
KindDecorator == "decorator"

\* variant of determineRole that looks for "-ref-" at the end of the id only
determineRole_SuffixOnly(ruleID) ==
    IF HasSuffix(ruleID, "-ref-") THEN RoleReference ELSE RoleDefinition

\* determineRole: a rule captures references iff its id contains "-ref-"
determineRole(ruleID) ==
    IF Contains(ruleID, "-ref-") THEN RoleReference ELSE RoleDefinition

\* determineKind: rule-family suffix -> symbol kind, first matching case wins
determineKind(ruleID) ==
    CASE HasSuffix(ruleID, "-imports") \/ HasSuffix(ruleID, "-import-aliases") -> KindImport
      [] HasSuffix(ruleID, "-functions") \/ HasSuffix(ruleID, "-arrow-functions")
         \/ HasSuffix(ruleID, "-function-signatures") \/ HasSuffix(ruleID, "-generator-functions")
         \/ HasSuffix(ruleID, "-function-expressions") \/ HasSuffix(ruleID, "-ref-function-calls")
            -> KindFunction
      [] HasSuffix(ruleID, "-methods") \/ HasSuffix(ruleID, "-method-signatures")
         \/ HasSuffix(ruleID, "-call-signatures") \/ HasSuffix(ruleID, "-construct-signatures")
         \/ HasSuffix(ruleID, "-static-blocks") -> KindMethod
      [] HasSuffix(ruleID, "-structs") \/ HasSuffix(ruleID, "-classes")
         \/ HasSuffix(ruleID, "-ref-new-expressions") -> KindClass
      [] HasSuffix(ruleID, "-interfaces") -> KindInterface
      [] HasSuffix(ruleID, "-types") \/ HasSuffix(ruleID, "-ref-type-references") -> KindType
      [] HasSuffix(ruleID, "-enums") -> KindEnum
      [] HasSuffix(ruleID, "-namespaces") -> KindNamespace
      [] HasSuffix(ruleID, "-constants") -> KindConstant
      [] HasSuffix(ruleID, "-vars") \/ HasSuffix(ruleID, "-variable-declarations") -> KindVariable
      [] HasSuffix(ruleID, "-lexical") -> KindVariable
      [] HasSuffix(ruleID, "-field-definitions") -> KindField
      [] HasSuffix(ruleID, "-property-signatures") \/ HasSuffix(ruleID, "-index-signatures")
            -> KindProperty
      [] HasSuffix(ruleID, "-decorators") -> KindDecorator
      [] OTHER -> KindVariable

\* detectLangFromRuleID: the language tag is the text before the first "-"
detectLangFromRuleID(ruleID) ==
    LET p == Split(ruleID, "-")[1]
    IN  CASE p = "go" -> "go"
          [] p = "ts" -> "typescript"
          [] p = "js" -> "javascript"
          [] p = "py" -> "python"
          [] p = "rust" -> "rust"
          [] p = "java" -> "java"
          [] p = "ruby" -> "ruby"
          [] p = "swift" -> "swift"
          [] p = "kotlin" -> "kotlin"
          [] p = "c" -> "c"
          [] p = "cpp" -> "cpp"
          [] p = "bash" -> "bash"
          [] OTHER -> ""

(***************************************************************************)
(* Scope resolver                                                          *)
(***************************************************************************)

RECURSIVE scanLine(_, _, _, _)
\* the inner loop of findEndLine over the bytes of one line, from byte j:
\* <<closed, braceCount, started>>, closed when the block ends on this line
scanLine(line, j, braceCount, started) ==
    IF j >= Len(line) THEN << FALSE, braceCount, started >>
    ELSE LET ch == At(line, j)
         IN  IF ch = "{" THEN scanLine(line, j + 1, braceCount + 1, TRUE)
             ELSE IF ch = "}"
                  THEN IF started /\ braceCount - 1 = 0
                       THEN << TRUE, braceCount - 1, started >>
                       ELSE scanLine(line, j + 1, braceCount - 1, started)
             ELSE scanLine(line, j + 1, braceCount, started)

RECURSIVE findEndLineScan(_, _, _, _)
\* the outer loop of findEndLine from line i (0-indexed) on
findEndLineScan(lines, i, braceCount, started) ==
    IF i >= Len(lines) THEN Len(lines) - 1
    ELSE LET r == scanLine(lines[i + 1], 0, braceCount, started)
         IN  IF r[1] THEN i ELSE findEndLineScan(lines, i + 1, r[2], r[3])

\* findEndLine: 0-indexed line on which the brace block opened at or after
\* startLine closes; the last line when no block closes
findEndLine(content, startLine) ==
    findEndLineScan(Split(content, "\n"), startLine, 0, FALSE)

RECURSIVE findBest(_, _, _, _)
\* the loop of findContainingScope: best is 0 (nil) or an index into containers
findBest(symbolLine, containers, i, best) ==
    IF i > Len(containers) THEN best
    ELSE LET c == containers[i]
         IN  IF symbolLine > c.StartLine /\ symbolLine <= c.EndLine
                /\ (best = 0 \/ c.StartLine > containers[best].StartLine)
             THEN findBest(symbolLine, containers, i + 1, i)
             ELSE findBest(symbolLine, containers, i + 1, best)

\* variant of findContainingScope that also takes the start line as inside
findContainingScope_Inclusive(symbolLine, containers) ==
    LET In == {i \in 1..Len(containers) :
                   symbolLine >= containers[i].StartLine /\ symbolLine <= containers[i].EndLine}
        b == IF In = {} THEN 0
             ELSE CHOOSE i \in In : \A j \in In :
                     \/ containers[j].StartLine < containers[i].StartLine
                     \/ (containers[j].StartLine = containers[i].StartLine /\ i <= j)
    IN  IF b # 0 THEN containers[b].Kind \o ":" \o containers[b].Name ELSE "global"

\* variant of findContainingScope that takes the first container in range
findContainingScope_First(symbolLine, containers) ==
    LET In == {i \in 1..Len(containers) :
                   symbolLine > containers[i].StartLine /\ symbolLine <= containers[i].EndLine}
    IN  IF In # {} THEN containers[MinOf(In)].Kind \o ":" \o containers[MinOf(In)].Name
        ELSE "global"

\* findContainingScope: innermost container strictly containing the line
findContainingScope(symbolLine, containers) ==
    LET best == findBest(symbolLine, containers, 1, 0)
    IN  IF best # 0 THEN containers[best].Kind \o ":" \o containers[best].Name
        ELSE "global"

RECURSIVE skipDecoratorLines(_)
\* "for strings.HasPrefix(text, "@")": drop leading decorator lines
skipDecoratorLines(text) ==
    IF HasPrefix(text, "@") /\ Index(text, "\n") > 0
    THEN skipDecoratorLines(TrimSpace(From(text, Index(text, "\n") + 1)))
    ELSE text

\* extractContainerName: the name in a container declaration, "" if none
extractContainerName(text0, kind) ==
    LET t1 == skipDecoratorLines(TrimSpace(text0))
        t2 == TrimPrefix(TrimPrefix(TrimPrefix(TrimPrefix(TrimPrefix(t1,
                  "export "), "default "), "declare "), "abstract "), "const ")
        goName ==
            IF HasPrefix(t2, "type ")
            THEN LET t == TrimPrefix(t2, "type ")
                     i == IndexAny(t, {" ", "\t"})
                 IN  IF i >= 0 /\ isValidIdentifier(TrimSpace(Slice(t, 0, i)))
                     THEN TrimSpace(Slice(t, 0, i)) ELSE ""
            ELSE ""
        keyword ==
            CASE kind = "class" -> "class "
              [] kind = "interface" -> "interface "
              [] kind = "namespace" ->
                    IF HasPrefix(t2, "namespace ") THEN "namespace "
                    ELSE IF HasPrefix(t2, "module ") THEN "module " ELSE ""
              [] kind = "enum" -> "enum "
              [] OTHER -> ""
        t3 == TrimPrefix(t2, keyword)
        i1 == IndexAny(t3, {" ", "<", "{", "\n"})
        i2 == IndexAny(t3, {At(t3, k) : k \in 0..(Len(t3) - 1)}
                           \ (Lower \cup Upper \cup Digit \cup {"_"}))
    IN  IF kind = "struct" \/ (kind = "interface" /\ HasPrefix(t2, "type ")) THEN goName
        ELSE IF keyword = "" \/ ~HasPrefix(t2, keyword) THEN ""
        ELSE IF i1 >= 0 /\ isValidIdentifier(TrimSpace(Slice(t3, 0, i1)))
             THEN TrimSpace(Slice(t3, 0, i1))
        ELSE IF i2 >= 0
             THEN (IF isValidIdentifier(Slice(t3, 0, i2)) THEN Slice(t3, 0, i2) ELSE "")
        ELSE IF isValidIdentifier(t3) THEN t3
        ELSE ""

\* the kind switch of parseContainerMatch; "" is the default case
containerKind(ruleID) ==
    CASE Contains(ruleID, "-container-class") -> "class"
      [] Contains(ruleID, "-container-interface") -> "interface"
      [] Contains(ruleID, "-container-namespace") -> "namespace"
      [] Contains(ruleID, "-container-enum") -> "enum"
      [] Contains(ruleID, "-container-struct") -> "struct"
      [] OTHER -> ""

(***************************************************************************)
(* Name extractors                                                         *)
(***************************************************************************)

\* the class / interface branch of extractScopeFromContext; "" when it does
\* not return
scopeFromKeyword(lines, keyword, kind) ==
    IF Contains(lines, keyword)
    THEN LET rest == From(lines, Index(lines, keyword) + Len(keyword))
             i == IndexAny(rest, {" ", "<", "{", "\n"})
         IN  IF i >= 0 /\ isValidIdentifier(TrimSpace(Slice(rest, 0, i)))
             THEN kind \o ":" \o TrimSpace(Slice(rest, 0, i))
             ELSE ""
    ELSE ""

\* variant of extractScopeFromContext that takes what follows "class " as it is
extractScopeFromContext_Unchecked(lines, lang) ==
    IF Contains(lines, "class ")
    THEN "class:" \o From(lines, Index(lines, "class ") + 6)
    ELSE "global"

\* extractScopeFromContext: scope guessed from the line buffer of a match
extractScopeFromContext(lines, lang) ==
    IF lang # "typescript" /\ lang # "javascript" THEN "global"
    ELSE IF scopeFromKeyword(lines, "class ", "class") # ""
         THEN scopeFromKeyword(lines, "class ", "class")
    ELSE IF scopeFromKeyword(lines, "interface ", "interface") # ""
         THEN scopeFromKeyword(lines, "interface ", "interface")
    ELSE "global"

\* the fixed modifier list of extractModifiers, in the order it is tried
ModifierWords ==
    << "public", "private", "protected", "static", "readonly", "async",
       "abstract", "override", "export", "default" >>

\* extractModifiers: modifier words found in the head of the first line
extractModifiers(text, lang) ==
    IF lang # "typescript" /\ lang # "javascript" THEN << >>
    ELSE LET l1 == IF Index(text, "\n") > 0 THEN Slice(text, 0, Index(text, "\n")) ELSE text
             firstLine == IF Index(l1, "{") > 0 THEN Slice(l1, 0, Index(l1, "{")) ELSE l1
         IN  SelectSeq(ModifierWords, LAMBDA mod : Contains(firstLine, mod \o " "))

\* extractCallExpressionName: callee of a call expression
extractCallExpressionName(text0) ==
    LET text == TrimSpace(text0)
        parenIdx == Index(text, "(")
        n0 == TrimSpace(Slice(text, 0, parenIdx))
        n1 == IF LastIndex(n0, ".") >= 0 THEN From(n0, LastIndex(n0, ".") + 1) ELSE n0
        n2 == IF LastIndex(n1, "?") >= 0 THEN From(n1, LastIndex(n1, "?") + 1) ELSE n1
    IN  IF parenIdx < 0 THEN ""
        ELSE IF isValidIdentifier(n2) THEN n2 ELSE ""

\* extractNewExpressionName: class named by a new expression
extractNewExpressionName(text0) ==
    LET text == TrimPrefix(TrimSpace(text0), "new ")
        i == IndexAny(text, {"(", "<", " "})
    IN  IF ~HasPrefix(TrimSpace(text0), "new ") THEN ""
        ELSE IF i >= 0 /\ isValidIdentifier(TrimSpace(Slice(text, 0, i)))
             THEN TrimSpace(Slice(text, 0, i))
        ELSE ""

\* extractTypeReferenceName: type named by a type reference
extractTypeReferenceName(text0) ==
    LET t0 == TrimSpace(text0)
        t1 == IF Index(t0, "<") > 0 THEN Slice(t0, 0, Index(t0, "<")) ELSE t0
        t2 == IF LastIndex(t1, ".") >= 0 THEN From(t1, LastIndex(t1, ".") + 1) ELSE t1
    IN  IF isValidIdentifier(t2) THEN t2 ELSE ""

\* extractGoReceiverType: receiver type of "func (r *T) M()", "" if none
extractGoReceiverType(text0) ==
    LET text == TrimPrefix(TrimSpace(text0), "func ")
        closeIdx == Index(text, ")")
        parts == Fields(Slice(text, 1, closeIdx))
        typeName == TrimPrefix(parts[Len(parts)], "*")
    IN  IF ~HasPrefix(TrimSpace(text0), "func ") THEN ""
        ELSE IF ~HasPrefix(text, "(") THEN ""
        ELSE IF closeIdx < 0 THEN ""
        ELSE IF Len(parts) < 2 THEN ""
        ELSE IF isValidIdentifier(typeName) THEN typeName
        ELSE ""

\* the backquote character, cut out of a two-character string because a
\* string literal cannot end right after it
Backquote == SubSeq("`'", 1, 1)

\* the quote characters extractImportPath tries, in order
Quotes == << "\"", "'", Backquote >>

\* text between the first pair of q in text; <<FALSE, "">> when the loop
\* body of extractImportPath does not return for q
quoted(text, q) ==
    LET idx == Index(text, q)
        end == Index(From(text, idx + 1), q)
    IN  IF idx >= 0 /\ end > 0 THEN << TRUE, Slice(text, idx + 1, idx + 1 + end) >>
        ELSE << FALSE, "" >>

\* extractImportPath: module path named by an import statement
extractImportPath(text0) ==
    LET text == TrimSpace(text0)
        lt == Index(text, "<")
        gt == Index(From(text, lt), ">")
        parts == Fields(text)
        q1 == quoted(text, Quotes[1])
        q2 == quoted(text, Quotes[2])
        q3 == quoted(text, Quotes[3])
        use == TrimSuffix(TrimPrefix(text, "use "), ";")
        imp == TrimSpace(TrimSuffix(TrimPrefix(text, "import "), ";"))
    IN  IF HasPrefix(text, "#include") /\ lt >= 0 /\ gt > 0 THEN Slice(text, lt + 1, lt + gt)
        ELSE IF (HasPrefix(text, "source ") \/ HasPrefix(text, ". ")) /\ Len(parts) >= 2
             THEN parts[2]
        ELSE IF q1[1] THEN q1[2]
        ELSE IF q2[1] THEN q2[2]
        ELSE IF q3[1] THEN q3[2]
        ELSE IF HasPrefix(text, "import ") /\ Len(parts) >= 2 THEN parts[2]
        ELSE IF HasPrefix(text, "from ") /\ Len(parts) >= 2 THEN parts[2]
        ELSE IF HasPrefix(text, "use ")
             THEN (IF Index(use, "::") > 0 THEN Slice(use, 0, Index(use, "::"))
                   ELSE TrimSpace(use))
        ELSE IF HasPrefix(text, "import ")
             THEN (IF LastIndex(imp, ".") > 0 THEN Slice(imp, 0, LastIndex(imp, ".")) ELSE imp)
        ELSE ""

RECURSIVE trimPrefixes(_, _, _)
\* "for _, mod := range mods { s = strings.TrimPrefix(s, mod) }", from mods[i] on
trimPrefixes(s, mods, i) ==
    IF i > Len(mods) THEN s ELSE trimPrefixes(TrimPrefix(s, mods[i]), mods, i + 1)

RECURSIVE stripModifiers(_, _)
\* "for { found := false; for _, mod := range mods {...}; if !found { break } }"
stripModifiers(s, mods) ==
    LET t == trimPrefixes(s, mods, 1)
    IN  IF t = s THEN s ELSE stripModifiers(t, mods)

\* "name up to the first delimiter, if a valid identifier": the loop
\*   for i, c := range text { if c in delims { name := TrimSpace(text[:i]);
\*                            if isValidIdentifier(name) { return name }; break } }
\* "" when the loop does not return
nameBefore(text, delims) ==
    LET i == IndexAny(text, delims)
    IN  IF i >= 0 /\ isValidIdentifier(TrimSpace(Slice(text, 0, i)))
        THEN TrimSpace(Slice(text, 0, i)) ELSE ""

\* the loop "for i, c := range text { if c in delims { return text[:i] } };
\* return text"
cutAt(text, delims) ==
    LET i == IndexAny(text, delims)
    IN  IF i >= 0 THEN Slice(text, 0, i) ELSE text

\* the swift/kotlin case of extractFunctionName, from prefixes[k] on
RECURSIVE funcAfterPrefix(_, _, _)
funcAfterPrefix(text, prefixes, k) ==
    IF k > Len(prefixes) THEN ""
    ELSE LET idx == Index(text, prefixes[k])
             t == From(text, idx + Len(prefixes[k]))
             paren == Index(t, "(")
             name == Slice(t, 0, paren)
         IN  IF idx < 0 THEN funcAfterPrefix(text, prefixes, k + 1)
             ELSE IF paren > 0
                  THEN TrimSpace(IF Index(name, "<") > 0
                                 THEN Slice(name, 0, Index(name, "<")) ELSE name)
             ELSE funcAfterPrefix(t, prefixes, k + 1)

\* extractFunctionName: name of a function declaration, per language
extractFunctionName(text0, lang) ==
    LET text == TrimSpace(text0)
        paren == Index(text, "(")
    IN  CASE lang = "go" ->
               LET t1 == TrimPrefix(text, "func ")
                   t2 == IF HasPrefix(t1, "(") /\ Index(t1, ")") > 0
                         THEN TrimSpace(From(t1, Index(t1, ")") + 1)) ELSE t1
               IN  IF HasPrefix(text, "func ") /\ Index(t2, "(") > 0
                   THEN Slice(t2, 0, Index(t2, "(")) ELSE ""
          [] lang \in {"typescript", "javascript"} ->
               LET t1 == IF Contains(text, "function ")
                         THEN From(text, Index(text, "function ") + 9) ELSE text
                   p1 == Index(t1, "(")
                   name == trimPrefixes(TrimSpace(Slice(t1, 0, p1)),
                               << "public ", "private ", "protected ", "static ",
                                  "readonly ", "async ", "get ", "set ", "override " >>, 1)
               IN  IF Contains(text, "function ") /\ p1 > 0 THEN TrimSpace(Slice(t1, 0, p1))
                   ELSE IF p1 > 0
                        THEN (IF name \in {"if", "for", "while", "switch", "catch", ""} THEN ""
                              ELSE IF isValidIdentifier(name) THEN name ELSE "")
                   ELSE ""
          [] lang = "python" ->
               LET t1 == TrimPrefix(text, "def ")
               IN  IF HasPrefix(text, "def ") /\ Index(t1, "(") > 0
                   THEN Slice(t1, 0, Index(t1, "(")) ELSE ""
          [] lang = "rust" ->
               LET t1 == From(text, Index(text, "fn ") + 3)
                   name == Slice(t1, 0, Index(t1, "("))
               IN  IF Index(text, "fn ") >= 0 /\ Index(t1, "(") > 0
                   THEN (IF Index(name, "<") > 0 THEN Slice(name, 0, Index(name, "<")) ELSE name)
                   ELSE ""
          [] lang = "java" ->
               LET parts == Fields(TrimSpace(Slice(text, 0, paren)))
               IN  IF paren > 0 /\ Len(parts) > 0 THEN parts[Len(parts)] ELSE ""
          [] lang = "ruby" ->
               LET t1 == TrimPrefix(text, "def ")
               IN  IF ~HasPrefix(text, "def ") THEN ""
                   ELSE IF Index(t1, "(") > 0 THEN Slice(t1, 0, Index(t1, "("))
                   ELSE IF Index(t1, " ") > 0 THEN Slice(t1, 0, Index(t1, " "))
                   ELSE IF Index(t1, "\n") > 0 THEN Slice(t1, 0, Index(t1, "\n"))
                   ELSE t1
          [] lang \in {"swift", "kotlin"} -> funcAfterPrefix(text, << "func ", "fun " >>, 1)
          [] lang \in {"c", "cpp"} ->
               LET parts == Fields(TrimLeft(TrimSpace(Slice(text, 0, paren)), {"*"}))
                   name == TrimLeft(parts[Len(parts)], {"*"})
               IN  IF paren > 0 /\ Len(parts) > 0 /\ isValidIdentifier(name) THEN name ELSE ""
          [] lang = "bash" ->
               LET t1 == TrimPrefix(text, "function ")
                   name == TrimSpace(Slice(t1, 0, Index(t1, "(")))
               IN  IF Index(t1, "(") > 0 /\ isValidIdentifier(name) THEN name ELSE ""
          [] OTHER -> ""

\* the Go branch shared by extractStructName and extractInterfaceName;
\* <<FALSE, "">> when it does not return
goTypeName(text) ==
    LET idx == Index(text, "type ")
        t == From(text, idx + 5)
        space == IndexAny(t, {" ", "\t"})
    IN  IF idx >= 0 /\ space > 0 THEN << TRUE, TrimSpace(Slice(t, 0, space)) >>
        ELSE << FALSE, "" >>

\* extractStructName: name of a Go struct / type, or of a TS/JS class
extractStructName(text0, lang) ==
    LET g == goTypeName(text0)
        t1 == skipDecoratorLines(TrimSpace(text0))
        t2 == TrimPrefix(TrimPrefix(TrimPrefix(t1, "export "), "default "), "abstract ")
    IN  IF lang = "go" /\ g[1] THEN g[2]
        ELSE IF lang \in {"typescript", "javascript"} /\ HasPrefix(t2, "class ")
             THEN cutAt(TrimPrefix(t2, "class "), {" ", "<", "{", "\n"})
        ELSE ""

\* extractInterfaceName: name of a Go or TypeScript interface
extractInterfaceName(text0, lang) ==
    LET g == goTypeName(text0)
        t1 == TrimPrefix(TrimSpace(text0), "export ")
    IN  IF lang = "go" /\ g[1] THEN g[2]
        ELSE IF lang = "typescript" /\ HasPrefix(t1, "interface ")
             THEN cutAt(TrimPrefix(t1, "interface "), {" ", "<", "{", "\n"})
        ELSE ""

\* extractMethodName: name of a Go method or of a TS/JS class member
extractMethodName(text0, lang) ==
    LET g1 == TrimPrefix(text0, "func ")
        g2 == IF HasPrefix(g1, "(") /\ Index(g1, ")") > 0
              THEN TrimSpace(From(g1, Index(g1, ")") + 1)) ELSE g1
        t1 == skipDecoratorLines(TrimSpace(text0))
        t2 == stripModifiers(t1, << "public ", "private ", "protected ", "static ",
                                    "readonly ", "async ", "override ", "abstract " >>)
        t3 == TrimSpace(TrimPrefix(TrimPrefix(TrimPrefix(t2, "get "), "set "), "*"))
        closeIdx == Index(t3, "]")
        inner == Trim(Slice(t3, 1, closeIdx), {"\"", "'", Backquote})
    IN  IF lang = "go" /\ HasPrefix(text0, "func ") /\ Index(g2, "(") > 0
        THEN TrimSpace(Slice(g2, 0, Index(g2, "(")))
        ELSE IF lang \in {"typescript", "javascript"}
             THEN (IF HasPrefix(t3, "[") /\ closeIdx > 0 /\ inner # ""
                   THEN "[" \o inner \o "]"
                   ELSE nameBefore(t3, {"(", "<"}))
        ELSE ""

\* the first field of a Go declaration line, if a valid identifier
firstField(s) ==
    LET fields == Fields(s)
    IN  IF Len(fields) > 0 /\ isValidIdentifier(fields[1]) THEN << fields[1] >> ELSE << >>

\* one line of a Go const ( ... ) or var ( ... ) block
goBlockLine(line0) ==
    LET line == TrimSpace(line0)
        eq == Index(line, "=")
    IN  IF line = "" \/ HasPrefix(line, "//") THEN << >>
        ELSE IF eq > 0 THEN firstField(TrimSpace(Slice(line, 0, eq)))
        ELSE firstField(line)

RECURSIVE goBlockNames(_, _)
\* the names of lines[i..] of a Go const / var block
goBlockNames(lines, i) ==
    IF i > Len(lines) THEN << >> ELSE goBlockLine(lines[i]) \o goBlockNames(lines, i + 1)

\* extractConstantNames: the names declared by a const declaration
extractConstantNames(text0, lang) ==
    LET g == TrimSpace(TrimPrefix(text0, "const "))
        block == TrimSuffix(TrimPrefix(g, "("), ")")
        eq == Index(g, "=")
        t1 == TrimPrefix(TrimSpace(text0), "export ")
        t2 == TrimPrefix(t1, "const ")
        name == nameBefore(t2, {" ", ":", "="})
    IN  IF lang = "go"
        THEN (IF HasPrefix(g, "(") THEN goBlockNames(Split(block, "\n"), 1)
              ELSE IF eq > 0 THEN firstField(TrimSpace(Slice(g, 0, eq)))
              ELSE << >>)
        ELSE IF lang \in {"typescript", "javascript"} /\ HasPrefix(t1, "const ")
                /\ ~(HasPrefix(t2, "{") \/ HasPrefix(t2, "[")) /\ name # ""
             THEN << name >>
        ELSE << >>

\* extractVarNames: the names declared by a var / let declaration
extractVarNames(text0, lang) ==
    LET g == TrimSpace(TrimPrefix(text0, "var "))
        block == TrimSuffix(TrimPrefix(g, "("), ")")
        eq == Index(g, "=")
        t1 == TrimPrefix(TrimSpace(text0), "export ")
        keyword == IF HasPrefix(t1, "let ") THEN "let "
                   ELSE IF HasPrefix(t1, "var ") THEN "var " ELSE ""
        t2 == TrimPrefix(t1, keyword)
        name == nameBefore(t2, {" ", ":", "="})
    IN  IF lang = "go"
        THEN (IF HasPrefix(g, "(") THEN goBlockNames(Split(block, "\n"), 1)
              ELSE IF eq > 0 THEN firstField(TrimSpace(Slice(g, 0, eq)))
              ELSE firstField(g))
        ELSE IF lang \in {"typescript", "javascript"} /\ keyword # ""
                /\ ~(HasPrefix(t2, "{") \/ HasPrefix(t2, "[")) /\ name # ""
             THEN << name >>
        ELSE << >>

\* extractTypeName: name of a Go type or of a TypeScript type alias
extractTypeName(text0, lang) ==
    LET t1 == TrimPrefix(TrimSpace(text0), "export ")
        t2 == TrimPrefix(t1, "type ")
        i == IndexAny(t2, {" ", "<", "="})
    IN  IF lang = "go" THEN extractStructName(text0, lang)
        ELSE IF lang = "typescript" /\ HasPrefix(t1, "type ")
             THEN (IF i >= 0 THEN TrimSpace(Slice(t2, 0, i)) ELSE t2)
        ELSE ""

\* extractEnumName: name of a TypeScript enum
extractEnumName(text0, lang) ==
    LET t1 == TrimPrefix(TrimPrefix(TrimPrefix(TrimSpace(text0),
                  "export "), "const "), "declare ")
    IN  IF lang = "typescript" /\ HasPrefix(t1, "enum ")
        THEN cutAt(TrimPrefix(t1, "enum "), {" ", "{", "\n"})
        ELSE ""

\* extractArrowFunctionName: the variable an arrow function is bound to,
\* read from the line buffer of the match
extractArrowFunctionName(lines, lang) ==
    LET line == TrimPrefix(TrimSpace(lines), "export ")
        keyword == IF HasPrefix(line, "const ") THEN "const "
                   ELSE IF HasPrefix(line, "let ") THEN "let "
                   ELSE IF HasPrefix(line, "var ") THEN "var " ELSE ""
    IN  IF lang \in {"typescript", "javascript"} /\ keyword # ""
        THEN nameBefore(TrimPrefix(line, keyword), {" ", ":", "="})
        ELSE ""

\* extractNamespaceName: name of a TypeScript namespace / module
extractNamespaceName(text0, lang) ==
    LET t1 == TrimPrefix(TrimPrefix(TrimSpace(text0), "export "), "declare ")
        keyword == IF HasPrefix(t1, "namespace ") THEN "namespace "
                   ELSE IF HasPrefix(t1, "module ") THEN "module " ELSE ""
        t2 == TrimPrefix(t1, keyword)
    IN  IF lang = "typescript" /\ keyword # ""
        THEN (IF HasPrefix(t2, "\"") \/ HasPrefix(t2, "'") THEN ""
              ELSE cutAt(t2, {" ", "{", "\n"}))
        ELSE ""

\* extractFunctionSignatureName: name of an ambient function signature
extractFunctionSignatureName(text0, lang) ==
    LET text == TrimSpace(text0)
    IN  IF lang = "typescript" /\ HasPrefix(text, "function ")
        THEN nameBefore(TrimPrefix(text, "function "), {"(", "<"})
        ELSE ""

\* extractMethodSignatureName: name of an interface / abstract method
extractMethodSignatureName(text0, lang) ==
    IF lang = "typescript"
    THEN nameBefore(TrimPrefix(TrimSpace(text0), "abstract "), {"(", "<", "?"})
    ELSE ""

\* extractPropertySignatureName: name of an interface property
extractPropertySignatureName(text0, lang) ==
    IF lang = "typescript"
    THEN nameBefore(TrimPrefix(TrimSpace(text0), "readonly "), {":", "?", " ", "\t"})
    ELSE ""

RECURSIVE skipFieldDecorators(_)
\* the decorator loop of extractFieldDefinitionName; <<FALSE, "">> when it
\* returns "" from inside the loop
skipFieldDecorators(text) ==
    IF ~HasPrefix(text, "@") THEN << TRUE, text >>
    ELSE IF Index(text, ")") > 0
         THEN skipFieldDecorators(TrimSpace(From(text, Index(text, ")") + 1)))
    ELSE IF Index(text, "\n") > 0
         THEN skipFieldDecorators(TrimSpace(From(text, Index(text, "\n") + 1)))
    ELSE IF Index(text, " ") > 0
         THEN skipFieldDecorators(TrimSpace(From(text, Index(text, " ") + 1)))
    ELSE << FALSE, "" >>

\* extractFieldDefinitionName: name of a class field
extractFieldDefinitionName(text0, lang) ==
    LET d == skipFieldDecorators(TrimSpace(text0))
        t == stripModifiers(d[2], << "public ", "private ", "protected ", "static ",
                                     "readonly ", "abstract ", "override ", "declare " >>)
    IN  IF lang \in {"typescript", "javascript"} /\ d[1]
        THEN nameBefore(t, {":", "=", "!", " ", "\t", ";"})
        ELSE ""

\* extractDecoratorName: bare identifier of a decorator
extractDecoratorName(text0, lang) ==
    LET text == TrimPrefix(TrimSpace(text0), "@")
        name == nameBefore(text, {"(", "\n", " ", "\t"})
    IN  IF lang = "typescript" /\ HasPrefix(TrimSpace(text0), "@")
        THEN (IF name # "" THEN name
              ELSE IF isValidIdentifier(text) THEN text ELSE "")
        ELSE ""

\* extractGeneratorFunctionName: name of a function* declaration
extractGeneratorFunctionName(text0, lang) ==
    LET t1 == TrimPrefix(TrimPrefix(TrimSpace(text0), "export "), "async ")
        t2 == TrimSpace(From(t1, Index(t1, "*") + 1))
    IN  IF lang \in {"typescript", "javascript"}
           /\ (HasPrefix(t1, "function* ") \/ HasPrefix(t1, "function *"))
        THEN nameBefore(t2, {"(", "<"})
        ELSE ""

\* the module named inside require(...), tried with quote q; <<FALSE, "">>
\* when the loop body does not return
requireArg(text, start, q) ==
    LET qStart == Index(From(text, start), q)
        qEnd == Index(From(text, start + qStart + 1), q)
    IN  IF qStart >= 0 /\ qEnd >= 0
        THEN << TRUE, Slice(text, start + qStart + 1, start + qStart + 1 + qEnd) >>
        ELSE << FALSE, "" >>

\* extractImportAliasName: target of "import X = require('m')" / "import X = Y.Z"
extractImportAliasName(text0, lang) ==
    LET text == TrimSpace(text0)
        start == Index(text, "require(") + 8
        r1 == requireArg(text, start, "'")
        r2 == requireArg(text, start, "\"")
        r3 == requireArg(text, start, Backquote)
        t1 == TrimPrefix(text, "import ")
        eq == Index(t1, "=")
        rhs == TrimSuffix(TrimSpace(From(t1, eq + 1)), ";")
    IN  IF lang # "typescript" THEN ""
        ELSE IF Contains(text, "require(") /\ r1[1] THEN r1[2]
        ELSE IF Contains(text, "require(") /\ r2[1] THEN r2[2]
        ELSE IF Contains(text, "require(") /\ r3[1] THEN r3[2]
        ELSE IF eq > 0
             THEN (IF Index(rhs, ".") > 0 THEN Slice(rhs, 0, Index(rhs, ".")) ELSE rhs)
        ELSE ""

\* extractCallSignature: "()" for a call signature
extractCallSignature(text) == IF HasPrefix(TrimSpace(text), "(") THEN "()" ELSE ""

\* extractConstructSignature: "new()" for a construct signature
extractConstructSignature(text) ==
    IF HasPrefix(TrimSpace(text), "new(") \/ HasPrefix(TrimSpace(text), "new (")
    THEN "new()" ELSE ""

\* extractIndexSignature: "[<key type>]" for an index signature
extractIndexSignature(text0) ==
    LET text == TrimSpace(text0)
        colonIdx == Index(text, ":")
        closeBracket == Index(text, "]")
    IN  IF ~HasPrefix(text, "[") THEN ""
        ELSE IF colonIdx < 0 THEN ""
        ELSE IF closeBracket < 0 \/ closeBracket < colonIdx THEN ""
        ELSE "[" \o TrimSpace(Slice(text, colonIdx + 1, closeBracket)) \o "]"

\* extractSingleVarName: the name of one declarator "name = value"
extractSingleVarName(text0) ==
    LET text == TrimSpace(text0)
        i == IndexAny(text, {" ", ":", "=", ";"})
        whole == TrimSuffix(TrimSpace(text), ";")
    IN  IF HasPrefix(text, "{") \/ HasPrefix(text, "[") THEN ""
        ELSE IF i >= 0
             THEN (IF isValidIdentifier(TrimSpace(Slice(text, 0, i)))
                   THEN TrimSpace(Slice(text, 0, i)) ELSE "")
        ELSE IF isValidIdentifier(whole) THEN whole
        ELSE ""

\* a one-element list for a non-empty name
nonEmpty(name) == IF name # "" THEN << name >> ELSE << >>

RECURSIVE varDeclScan(_, _, _, _)
\* the comma-splitting loop of extractVarDeclarationNames at offset i, with
\* the current bracket depth and the offset at which the current piece starts
varDeclScan(text, i, depth, start) ==
    IF i >= Len(text)
    THEN (IF start < Len(text) THEN nonEmpty(extractSingleVarName(From(text, start)))
          ELSE << >>)
    ELSE LET c == At(text, i)
         IN  IF c \in {"(", "{", "["} THEN varDeclScan(text, i + 1, depth + 1, start)
             ELSE IF c \in {")", "}", "]"} THEN varDeclScan(text, i + 1, depth - 1, start)
             ELSE IF c = "," /\ depth = 0
                  THEN nonEmpty(extractSingleVarName(Slice(text, start, i)))
                       \o varDeclScan(text, i + 1, depth, i + 1)
             ELSE varDeclScan(text, i + 1, depth, start)

\* variant of extractVarDeclarationNames that splits at every comma
extractVarDeclarationNames_EveryComma(text0, lang) ==
    LET text == TrimSpace(text0)
        pieces == Split(TrimPrefix(text, "var "), ",")
        names == [i \in DOMAIN pieces |-> extractSingleVarName(pieces[i])]
    IN  IF ~HasPrefix(text, "var ") THEN << >>
        ELSE SelectSeq(names, LAMBDA name : name # "")

\* extractVarDeclarationNames: the names of a legacy "var a = 1, b = 2"
extractVarDeclarationNames(text0, lang) ==
    LET text == TrimSpace(text0)
    IN  IF ~HasPrefix(text, "var ") THEN << >>
        ELSE varDeclScan(TrimPrefix(text, "var "), 0, 0, 0)

\* extractFunctionExpressionName: name of a named function expression
extractFunctionExpressionName(text0, lang) ==
    LET t1 == TrimPrefix(TrimSpace(text0), "async ")
        t2 == TrimSpace(TrimPrefix(TrimPrefix(t1, "function"), "*"))
    IN  IF ~HasPrefix(t1, "function") THEN ""
        ELSE IF HasPrefix(t2, "(") THEN ""
        ELSE nameBefore(t2, {"(", "<"})

(***************************************************************************)
(* extractSymbolV2                                                         *)
(***************************************************************************)

\* the suffixes tested by the switch of extractSymbolV2, in source order
CaseSuffixes ==
    << "-imports", "-arrow-functions", "-function-signatures",
       "-generator-functions", "-functions", "-structs", "-classes",
       "-interfaces", "-methods", "-method-signatures", "-constants", "-types",
       "-vars", "-enums", "-lexical", "-namespaces", "-property-signatures",
       "-field-definitions", "-decorators", "-import-aliases",
       "-call-signatures", "-construct-signatures", "-index-signatures",
       "-variable-declarations", "-function-expressions", "-static-blocks",
       "-ref-function-calls", "-ref-new-expressions", "-ref-type-references" >>

RECURSIVE caseFrom(_, _)
\* the first suffix of CaseSuffixes, from position i on, that ends ruleID;
\* "" when the switch falls through
caseFrom(ruleID, i) ==
    IF i > Len(CaseSuffixes) THEN ""
    ELSE IF HasSuffix(ruleID, CaseSuffixes[i]) THEN CaseSuffixes[i]
    ELSE caseFrom(ruleID, i + 1)

\* names[0] when the list is not empty
firstName(names) == IF Len(names) > 0 THEN names[1] ELSE ""

\* the names read by the "-lexical" case: constants after a leading "const ",
\* variables otherwise
lexicalNames(m, lang) ==
    IF HasPrefix(TrimSpace(m.text), "const ")
    THEN extractConstantNames(m.text, lang)
    ELSE extractVarNames(m.text, lang)

\* sym.Name as the switch of extractSymbolV2 assigns it
symbolName(m, lang) ==
    LET c == caseFrom(m.ruleId, 1)
    IN  CASE c = "-imports" ->
               IF m.path # "" THEN m.path ELSE extractImportPath(m.text)
          [] c = "-arrow-functions" -> extractArrowFunctionName(m.lines, lang)
          [] c = "-function-signatures" -> extractFunctionSignatureName(m.text, lang)
          [] c = "-generator-functions" -> extractGeneratorFunctionName(m.text, lang)
          [] c = "-functions" -> extractFunctionName(m.text, lang)
          [] c \in {"-structs", "-classes"} -> extractStructName(m.text, lang)
          [] c = "-interfaces" -> extractInterfaceName(m.text, lang)
          [] c = "-methods" -> extractMethodName(m.text, lang)
          [] c = "-method-signatures" -> extractMethodSignatureName(m.text, lang)
          [] c = "-constants" -> firstName(extractConstantNames(m.text, lang))
          [] c = "-types" -> extractTypeName(m.text, lang)
          [] c = "-vars" -> firstName(extractVarNames(m.text, lang))
          [] c = "-enums" -> extractEnumName(m.text, lang)
          [] c = "-lexical" -> firstName(lexicalNames(m, lang))
          [] c = "-namespaces" -> extractNamespaceName(m.text, lang)
          [] c = "-property-signatures" -> extractPropertySignatureName(m.text, lang)
          [] c = "-field-definitions" -> extractFieldDefinitionName(m.text, lang)
          [] c = "-decorators" -> extractDecoratorName(m.text, lang)
          [] c = "-import-aliases" -> extractImportAliasName(m.text, lang)
          [] c = "-call-signatures" -> extractCallSignature(m.text)
          [] c = "-construct-signatures" -> extractConstructSignature(m.text)
          [] c = "-index-signatures" -> extractIndexSignature(m.text)
          [] c = "-variable-declarations" ->
               firstName(extractVarDeclarationNames(m.text, lang))
          [] c = "-function-expressions" -> extractFunctionExpressionName(m.text, lang)
          [] c = "-static-blocks" -> "(static block)"
          [] c = "-ref-function-calls" -> extractCallExpressionName(m.text)
          [] c = "-ref-new-expressions" -> extractNewExpressionName(m.text)
          [] c = "-ref-type-references" -> extractTypeReferenceName(m.text)
          [] OTHER -> ""

\* variant of symbolKind without the refinement of the "-lexical" case
symbolKind_Unrefined(m, lang) == determineKind(m.ruleId)

\* sym.Kind: determineKind, refined by the "-lexical" case when it finds a name
symbolKind(m, lang) ==
    IF caseFrom(m.ruleId, 1) = "-lexical" /\ Len(lexicalNames(m, lang)) > 0
    THEN (IF HasPrefix(TrimSpace(m.text), "const ") THEN KindConstant ELSE KindVariable)
    ELSE determineKind(m.ruleId)

\* sym.Scope as extractSymbolV2 leaves it: "global" unless the case reads the
\* line buffer
symbolScope(m, lang) ==
    IF caseFrom(m.ruleId, 1) \in {"-methods", "-method-signatures",
                                  "-property-signatures", "-field-definitions"}
    THEN extractScopeFromContext(m.lines, lang)
    ELSE "global"

\* extractSymbolV2: the Symbol built from one raw match
extractSymbolV2(m, lang) ==
    [ Name |-> symbolName(m, lang),
      Kind |-> symbolKind(m, lang),
      Role |-> determineRole(m.ruleId),
      Line |-> m.line,
      Column |-> m.column,
      Scope |-> symbolScope(m, lang),
      Modifiers |-> extractModifiers(m.text, lang) ]

(***************************************************************************)
(* Rule bundle, matcher and scanned tree                                   *)
(***************************************************************************)

\* the entries of the materialised rule directory
RuleFiles ==
    {"go.yml", "go-containers.yml", "typescript.yml",
     "typescript-containers.yml", "typescript-refs.yml", "sgconfig.yml"}

\* the rule ids each rule file of the bundle defines
rulesOf(name) ==
    CASE name = "go.yml" -> {"go-structs", "go-methods", "go-constants"}
      [] name = "go-containers.yml" -> {"go-container-struct"}
      [] name = "typescript.yml" -> {"ts-methods", "ts-lexical"}
      [] name = "typescript-containers.yml" -> {"ts-container-class"}
      [] name = "typescript-refs.yml" -> {"ts-ref-function-calls"}
      [] OTHER -> {}

\* variant of containerRuleFiles that finds no container rule file
containerRuleFiles_None == {}

\* the rule files of the container pass of extractScopeContainers
containerRuleFiles ==
    {e \in RuleFiles : Contains(e, "-containers") /\ HasSuffix(e, ".yml")}

\* variant of symbolRuleFiles that skips no rule file
symbolRuleFiles_All(refs) ==
    {e \in RuleFiles : HasSuffix(e, ".yml") /\ e # "sgconfig.yml"}

\* the rule files ScanDirectoryV2 hands to the matcher in the symbol pass
symbolRuleFiles(refs) ==
    {e \in RuleFiles :
        /\ HasSuffix(e, ".yml") /\ e # "sgconfig.yml"
        /\ ~(~refs /\ Contains(e, "-refs"))
        /\ ~Contains(e, "-containers")}

\* one invocation of the matcher: of the matches the tree holds, those of
\* the rules in the given rule files, in the matcher's order
runMatcher(ruleFiles, out) ==
    SelectSeq(out, LAMBDA m : \E f \in ruleFiles : m.ruleId \in rulesOf(f))

\* the scanned root directory
Root == "/r"

\* os.ReadFile on the scanned tree: <<ok, content>>
ReadFile(path) ==
    CASE path = "/r/a.go" ->
           << TRUE, "type S struct { // {\n\tn int\n}\nfunc (t *T) Run() {}\n"
                    \o "const (\n\tRed = iota\n\tGreen\n\tBlue\n)\n"
                    \o "func (*T) Stop() {}\n" >>
      [] path = "/r/b.ts" ->
           << TRUE, "class A {\n  m() { foo(); foo(); }\n}\nconst x = 1;\n"
                    \o "let y = 2;\nclass B { k() {} }\nexport default class {\n}\n" >>
      [] OTHER -> << FALSE, "" >>

\* a ScanMatch as decoded from the matcher's JSON
ScanMatch(file, ruleId, line, column, text, lines) ==
    [ file |-> file, ruleId |-> ruleId, line |-> line, column |-> column,
      text |-> text, lines |-> lines, path |-> "" ]

\* the raw matches the rules of the bundle can report on the two files
RawMatches ==
    << ScanMatch("/r/a.go", "go-container-struct", 0, 0,
                 "type S struct { // {\n\tn int\n}", "type S struct { // {\n\tn int\n}"),
       ScanMatch("/r/a.go", "go-structs", 0, 0,
                 "type S struct { // {\n\tn int\n}", "type S struct { // {\n\tn int\n}"),
       ScanMatch("/r/a.go", "go-methods", 3, 0,
                 "func (t *T) Run() {}", "func (t *T) Run() {}"),
       ScanMatch("/r/a.go", "go-constants", 4, 0,
                 "const (\n\tRed = iota\n\tGreen\n\tBlue\n)",
                 "const (\n\tRed = iota\n\tGreen\n\tBlue\n)"),
       ScanMatch("/r/a.go", "go-methods", 9, 0,
                 "func (*T) Stop() {}", "func (*T) Stop() {}"),
       ScanMatch("/r/b.ts", "ts-container-class", 0, 0,
                 "class A {\n  m() { foo(); foo(); }\n}",
                 "class A {\n  m() { foo(); foo(); }\n}"),
       ScanMatch("/r/b.ts", "ts-methods", 1, 2,
                 "m() { foo(); foo(); }", "  m() { foo(); foo(); }"),
       ScanMatch("/r/b.ts", "ts-ref-function-calls", 1, 8,
                 "foo()", "  m() { foo(); foo(); }"),
       ScanMatch("/r/b.ts", "ts-ref-function-calls", 1, 15,
                 "foo()", "  m() { foo(); foo(); }"),
       ScanMatch("/r/b.ts", "ts-lexical", 3, 0, "const x = 1;", "const x = 1;"),
       ScanMatch("/r/b.ts", "ts-lexical", 4, 0, "let y = 2;", "let y = 2;"),
       ScanMatch("/r/b.ts", "ts-methods", 5, 10, "k() {}", "class B { k() {} }") >>

RECURSIVE Join(_, _)
\* strings.Join
Join(elems, sep) ==
    IF Len(elems) = 0 THEN ""
    ELSE IF Len(elems) = 1 THEN elems[1]
    ELSE elems[1] \o sep \o Join(Tail(elems), sep)

RECURSIVE cleanElems(_, _, _, _)
\* the element loop of filepath.Clean: "" and "." are dropped, ".." removes
\* the element before it (or stays, in front of a relative path)
cleanElems(elems, i, acc, rooted) ==
    IF i > Len(elems) THEN acc
    ELSE IF elems[i] = "" \/ elems[i] = "."
         THEN cleanElems(elems, i + 1, acc, rooted)
    ELSE IF elems[i] = ".."
         THEN IF Len(acc) > 0 /\ acc[Len(acc)] # ".."
              THEN cleanElems(elems, i + 1, SubSeq(acc, 1, Len(acc) - 1), rooted)
              ELSE IF rooted THEN cleanElems(elems, i + 1, acc, rooted)
              ELSE cleanElems(elems, i + 1, Append(acc, ".."), rooted)
    ELSE cleanElems(elems, i + 1, Append(acc, elems[i]), rooted)

\* filepath.Clean with the separator "/"
Clean(path) ==
    LET rooted == HasPrefix(path, "/")
        joined == Join(cleanElems(Split(path, "/"), 1, << >>, rooted), "/")
    IN  IF path = "" THEN "."
        ELSE IF rooted THEN "/" \o joined
        ELSE IF joined = "" THEN "."
        ELSE joined

\* the elements of a cleaned path
pathElems(path) == SelectSeq(Split(path, "/"), LAMBDA e : e # "")

RECURSIVE commonLen(_, _, _)
\* the loop of filepath.Rel: the number of leading elements base and targ
\* share, from k shared elements on
commonLen(b, t, k) ==
    IF k < Len(b) /\ k < Len(t) /\ b[k + 1] = t[k + 1] THEN commonLen(b, t, k + 1) ELSE k

\* the end of filepath.Rel: no path leads out of a base that goes on with
\* ".."; otherwise one ".." for every element left of the base, then the
\* elements left of the target
relFrom(b, t, k) ==
    IF k < Len(b) /\ b[k + 1] = ".." THEN ""
    ELSE Join([i \in 1..(Len(b) - k) |-> ".."] \o SubSeq(t, k + 1, Len(t)), "/")

\* filepath.Rel on the elements of the cleaned paths
relElems(b, t) == relFrom(b, t, commonLen(b, t, 0))

\* filepath.Rel on cleaned paths
relCleaned(base, targ) ==
    IF targ = base THEN "."
    ELSE IF HasPrefix(base, "/") # HasPrefix(targ, "/") THEN ""
    ELSE relElems(pathElems(IF base = "." THEN "" ELSE base), pathElems(targ))

\* filepath.Rel as its callers see it, who drop the error: "" when it fails
filepathRel(basepath, targpath) == relCleaned(Clean(basepath), Clean(targpath))

\* "if relPath == "" { relPath = m.File }"
orFile(relPath, file) == IF relPath = "" THEN file ELSE relPath

\* "relPath, _ := filepath.Rel(root, m.File)" with the fallback of the callers
Rel(root, file) == orFile(filepathRel(root, file), file)

(***************************************************************************)
(* Container pass                                                          *)
(***************************************************************************)

\* a Go map with no keys
EmptyMap == [p \in {} |-> << >>]

\* variant of parseContainerMatch that gives up on a file it cannot read
parseContainerMatch_NoFallback(m) ==
    LET kind == containerKind(m.ruleId)
        name == extractContainerName(m.text, kind)
        file == ReadFile(m.file)
    IN  IF kind = "" \/ name = "" \/ ~file[1]
        THEN [Kind |-> kind, Name |-> "", StartLine |-> m.line, EndLine |-> 0]
        ELSE [Kind |-> kind, Name |-> name, StartLine |-> m.line,
              EndLine |-> findEndLine(file[2], m.line)]

\* parseContainerMatch: the ScopeContainer of one container match
parseContainerMatch(m) ==
    LET kind == containerKind(m.ruleId)
        name == extractContainerName(m.text, kind)
        file == ReadFile(m.file)
    IN  IF kind = "" THEN [Kind |-> "", Name |-> "", StartLine |-> m.line, EndLine |-> 0]
        ELSE IF name = ""
             THEN [Kind |-> kind, Name |-> "", StartLine |-> m.line, EndLine |-> 0]
        ELSE IF ~file[1]
             THEN [Kind |-> kind, Name |-> name, StartLine |-> m.line,
                   EndLine |-> m.line + Count(m.text, "\n")]
        ELSE [Kind |-> kind, Name |-> name, StartLine |-> m.line,
              EndLine |-> findEndLine(file[2], m.line)]

RECURSIVE groupContainers(_, _, _, _)
\* the grouping loop of extractScopeContainers from match i on
groupContainers(root, ms, i, result) ==
    IF i > Len(ms) THEN result
    ELSE LET relPath == Rel(root, ms[i].file)
             container == parseContainerMatch(ms[i])
             old == IF relPath \in DOMAIN result THEN result[relPath] ELSE << >>
         IN  IF container.Name # ""
             THEN groupContainers(root, ms, i + 1,
                      [p \in DOMAIN result \cup {relPath} |->
                          IF p = relPath THEN Append(old, container) ELSE result[p]])
             ELSE groupContainers(root, ms, i + 1, result)

\* findAstGrepBinary over the names exec.LookPath finds on the executable path
findAstGrepBinary(onPath) ==
    IF "ast-grep" \in onPath THEN "ast-grep"
    ELSE IF "sg" \in onPath THEN "sg"
    ELSE ""

\* what cmd.CombinedOutput can hand back: the exit status (0, or 1 for any
\* failure) and the combined output, which is
\*   "array"     the JSON array of the matches of the rules given,
\*   "truncated" text that begins with "[" and is no JSON,
\*   "message"   other non-empty text, such as an error message,
\*   "empty"     no byte at all
Runs == [exit : {0, 1}, out : {"array", "truncated", "message", "empty"}]

\* a matcher run that succeeds
NormalRun == [exit |-> 0, out |-> "array"]

\* variant of tolerated that accepts no failed run
tolerated_Never(run) == FALSE

\* err != nil && (len(out) == 0 || !strings.HasPrefix(string(out), "["))
tolerated(run) ==
    run.exit # 0 /\ (run.out = "empty" \/ run.out \notin {"array", "truncated"})

\* variant of unmarshals that reports no error for any output
unmarshals_Always(run) == TRUE

\* json.Unmarshal(out, &matches) returns no error
unmarshals(run) == run.out = "array"

\* extractScopeContainers: the containers of every file, in match order, and
\* the error returned; spawned tells whether the matcher was started
extractScopeContainers(root, bin, run, out) ==
    IF bin = "" THEN [result |-> EmptyMap, err |-> "nil", spawned |-> 0]
    ELSE IF containerRuleFiles = {}
         THEN [result |-> EmptyMap, err |-> "nil", spawned |-> 0]
    ELSE IF tolerated(run) THEN [result |-> EmptyMap, err |-> "nil", spawned |-> 1]
    ELSE IF ~unmarshals(run) THEN [result |-> EmptyMap, err |-> "json", spawned |-> 1]
    ELSE [result |-> groupContainers(root, runMatcher(containerRuleFiles, out), 1,
                                     EmptyMap),
          err |-> "nil", spawned |-> 1]

(***************************************************************************)
(* Symbol assembly                                                         *)
(***************************************************************************)

\* the key dedupeSymbols compares symbols on
symKey(sym) == << sym.Name, sym.Kind, sym.Role, sym.Line >>

RECURSIVE dedupeFrom(_, _, _)
\* the loop of dedupeSymbols from position i on, seen being the keys kept
dedupeFrom(symbols, i, seen) ==
    IF i > Len(symbols) THEN << >>
    ELSE IF symKey(symbols[i]) \in seen THEN dedupeFrom(symbols, i + 1, seen)
    ELSE << symbols[i] >> \o dedupeFrom(symbols, i + 1, seen \cup {symKey(symbols[i])})

\* dedupeSymbols: the first symbol of every (name, kind, role, line), in order
dedupeSymbols(symbols) == dedupeFrom(symbols, 1, {})

\* variant of finishFile that returns the symbols as collected
finishFile_NoDedupe(a) == a

\* the body of the loop that turns fileMap into the result slice
finishFile(a) == [a EXCEPT !.Symbols = dedupeSymbols(a.Symbols)]

\* variant of appendSymbol that puts the new symbol first
appendSymbol_Front(symbols, sym) == << sym >> \o symbols

\* fileMap[relPath].Symbols = append(fileMap[relPath].Symbols, sym)
appendSymbol(symbols, sym) == Append(symbols, sym)

\* variant of resolveScope that keeps the scope extractSymbolV2 left
resolveScope_Provisional(sym, relPath, cs) == sym

\* scope resolution against the container ranges of the file, if it has any
resolveScope(sym, relPath, cs) ==
    IF relPath \in DOMAIN cs /\ Len(cs[relPath]) > 0
    THEN [sym EXCEPT !.Scope = findContainingScope(sym.Line, cs[relPath])]
    ELSE sym

\* for a Go method the receiver type, when there is one, is the scope
receiverScope(sym, m, lang) ==
    IF lang = "go" /\ HasSuffix(m.ruleId, "-methods") /\ extractGoReceiverType(m.text) # ""
    THEN [sym EXCEPT !.Scope = "struct:" \o extractGoReceiverType(m.text)]
    ELSE sym

\* the orders in which a range loop can visit the keys of a Go map
Orders(keys) ==
    {o \in [1..Cardinality(keys) -> keys] : \A k \in keys : \E i \in DOMAIN o : o[i] = k}

(***************************************************************************)
(* ScanDirectory and AnalyzeFile: one name list per category               *)
(***************************************************************************)

\* the suffixes tested by the if-chain of ScanDirectory, in source order
LegacySuffixes ==
    << "-imports", "-arrow-functions", "-function-signatures",
       "-generator-functions", "-functions", "-structs", "-interfaces",
       "-methods", "-constants", "-types", "-vars", "-classes", "-enums",
       "-lexical", "-namespaces", "-method-signatures", "-property-signatures",
       "-field-definitions", "-decorators", "-import-aliases",
       "-ambient-declarations", "-call-signatures", "-construct-signatures",
       "-index-signatures", "-variable-declarations", "-function-expressions",
       "-static-blocks" >>

RECURSIVE legacyCaseFrom(_, _)
\* the first suffix of LegacySuffixes, from position i on, that ends ruleID
legacyCaseFrom(ruleID, i) ==
    IF i > Len(LegacySuffixes) THEN ""
    ELSE IF HasSuffix(ruleID, LegacySuffixes[i]) THEN LegacySuffixes[i]
    ELSE legacyCaseFrom(ruleID, i + 1)

\* a list of a FileAnalysis and the names to append to it
Into(field, names) == [field |-> field, names |-> names]

\* one branch of extractAmbientDeclaration: the text up to the first stop
\* character, when there is one and the text before it is an identifier
ambientName(rest, stops) ==
    LET i == IndexAny(rest, stops)
    IN  IF i >= 0 /\ isValidIdentifier(TrimSpace(Slice(rest, 0, i)))
        THEN << TrimSpace(Slice(rest, 0, i)) >>
        ELSE << >>

\* extractAmbientDeclaration: the list a "declare ..." text adds a name to
extractAmbientDeclaration(text0) ==
    LET text == TrimPrefix(TrimSpace(text0), "declare ")
        after(keyword) == TrimPrefix(text, keyword)
    IN  IF ~HasPrefix(TrimSpace(text0), "declare ") THEN Into("", << >>)
        ELSE IF HasPrefix(text, "function ")
             THEN Into("Functions", ambientName(after("function "), {"(", "<"}))
        ELSE IF HasPrefix(text, "const ")
             THEN Into("Constants", ambientName(after("const "), {":", "=", ";", " "}))
        ELSE IF HasPrefix(text, "let ")
             THEN Into("Vars", ambientName(after("let "), {":", "=", ";", " "}))
        ELSE IF HasPrefix(text, "var ")
             THEN Into("Vars", ambientName(after("var "), {":", "=", ";", " "}))
        ELSE IF HasPrefix(text, "class ")
             THEN Into("Structs", ambientName(after("class "), {" ", "<", "{", "\n"}))
        ELSE IF HasPrefix(text, "abstract class ")
             THEN Into("Structs",
                       ambientName(after("abstract class "), {" ", "<", "{", "\n"}))
        ELSE IF HasPrefix(text, "interface ")
             THEN Into("Interfaces", ambientName(after("interface "), {" ", "<", "{", "\n"}))
        ELSE IF HasPrefix(text, "namespace ")
             THEN (IF HasPrefix(after("namespace "), "\"") \/ HasPrefix(after("namespace "), "'")
                   THEN Into("", << >>)
                   ELSE Into("Types", ambientName(after("namespace "), {" ", "{", "\n"})))
        ELSE IF HasPrefix(text, "module ")
             THEN (IF HasPrefix(after("module "), "\"") \/ HasPrefix(after("module "), "'")
                   THEN Into("", << >>)
                   ELSE Into("Types", ambientName(after("module "), {" ", "{", "\n"})))
        ELSE IF HasPrefix(text, "enum ")
             THEN Into("Types", ambientName(after("enum "), {" ", "{", "\n"}))
        ELSE IF HasPrefix(text, "type ")
             THEN Into("Types", ambientName(after("type "), {" ", "<", "="}))
        ELSE Into("", << >>)

\* the branch of ScanDirectory's if-chain for one match: the list it appends
\* to and the names appended
legacyNames(m, lang) ==
    LET c == legacyCaseFrom(m.ruleId, 1)
        text == TrimSpace(m.text)
    IN  CASE c = "-imports" ->
               Into("Imports", nonEmpty(IF m.path # "" THEN m.path
                                        ELSE extractImportPath(m.text)))
          [] c = "-arrow-functions" ->
               Into("Functions", nonEmpty(extractArrowFunctionName(m.lines, lang)))
          [] c = "-function-signatures" ->
               Into("Functions", nonEmpty(extractFunctionSignatureName(m.text, lang)))
          [] c = "-generator-functions" ->
               Into("Functions", nonEmpty(extractGeneratorFunctionName(m.text, lang)))
          [] c = "-functions" -> Into("Functions", nonEmpty(extractFunctionName(m.text, lang)))
          [] c = "-structs" -> Into("Structs", nonEmpty(extractStructName(m.text, lang)))
          [] c = "-interfaces" ->
               Into("Interfaces", nonEmpty(extractInterfaceName(m.text, lang)))
          [] c = "-methods" -> Into("Methods", nonEmpty(extractMethodName(m.text, lang)))
          [] c = "-constants" -> Into("Constants", extractConstantNames(m.text, lang))
          [] c = "-types" -> Into("Types", nonEmpty(extractTypeName(m.text, lang)))
          [] c = "-vars" -> Into("Vars", extractVarNames(m.text, lang))
          [] c = "-classes" -> Into("Structs", nonEmpty(extractStructName(m.text, lang)))
          [] c = "-enums" -> Into("Types", nonEmpty(extractEnumName(m.text, lang)))
          [] c = "-lexical" ->
               IF HasPrefix(text, "const ")
               THEN Into("Constants", extractConstantNames(m.text, lang))
               ELSE IF HasPrefix(text, "let ") \/ HasPrefix(text, "var ")
                    THEN Into("Vars", extractVarNames(m.text, lang))
               ELSE Into("", << >>)
          [] c = "-namespaces" -> Into("Types", nonEmpty(extractNamespaceName(m.text, lang)))
          [] c = "-method-signatures" ->
               Into("Methods", nonEmpty(extractMethodSignatureName(m.text, lang)))
          [] c = "-property-signatures" ->
               Into("Properties", nonEmpty(extractPropertySignatureName(m.text, lang)))
          [] c = "-field-definitions" ->
               Into("Fields", nonEmpty(extractFieldDefinitionName(m.text, lang)))
          [] c = "-decorators" ->
               Into("Decorators", nonEmpty(extractDecoratorName(m.text, lang)))
          [] c = "-import-aliases" ->
               Into("Imports", nonEmpty(extractImportAliasName(m.text, lang)))
          [] c = "-ambient-declarations" -> extractAmbientDeclaration(m.text)
          [] c = "-call-signatures" -> Into("Methods", nonEmpty(extractCallSignature(m.text)))
          [] c = "-construct-signatures" ->
               Into("Methods", nonEmpty(extractConstructSignature(m.text)))
          [] c = "-index-signatures" ->
               Into("Properties", nonEmpty(extractIndexSignature(m.text)))
          [] c = "-variable-declarations" ->
               Into("Vars", extractVarDeclarationNames(m.text, lang))
          [] c = "-function-expressions" ->
               Into("Functions", nonEmpty(extractFunctionExpressionName(m.text, lang)))
          [] c = "-static-blocks" -> Into("Methods", << "(static block)" >>)
          [] OTHER -> Into("", << >>)

\* the name lists of a FileAnalysis
Categories ==
    {"Functions", "Imports", "Structs", "Interfaces", "Types", "Constants",
     "Methods", "Vars", "Fields", "Properties", "Decorators"}

\* &FileAnalysis{Path: relPath, Language: lang}
newFileAnalysis(relPath, lang) ==
    [f \in Categories \cup {"Path", "Language"} |->
        IF f = "Path" THEN relPath ELSE IF f = "Language" THEN lang ELSE << >>]

\* the append of one iteration: the names added to the list the branch names
appendNames(entry, add) ==
    IF add.field = "" THEN entry ELSE [entry EXCEPT ![add.field] = @ \o add.names]

RECURSIVE legacyLoop(_, _, _, _)
\* the loop of ScanDirectory over the matches from match i on
legacyLoop(root, ms, i, fm) ==
    IF i > Len(ms) THEN fm
    ELSE LET relPath == Rel(root, ms[i].file)
             entry == IF relPath \in DOMAIN fm THEN fm[relPath]
                      ELSE newFileAnalysis(relPath, detectLangFromRuleID(ms[i].ruleId))
         IN  legacyLoop(root, ms, i + 1,
                 [p \in DOMAIN fm \cup {relPath} |->
                     IF p = relPath
                     THEN appendNames(entry, legacyNames(ms[i], entry.Language))
                     ELSE fm[p]])

RECURSIVE dedupeLoop(_, _, _)
\* the loop of dedupe from position i on, seen being the items kept
dedupeLoop(items, i, seen) ==
    IF i > Len(items) THEN << >>
    ELSE IF items[i] \in seen THEN dedupeLoop(items, i + 1, seen)
    ELSE << items[i] >> \o dedupeLoop(items, i + 1, seen \cup {items[i]})

\* dedupe: the first occurrence of every string, in order
dedupe(items) == dedupeLoop(items, 1, {})

\* a FileAnalysis with every list deduplicated
dedupeLists(a) ==
    [f \in DOMAIN a |-> IF f \in Categories THEN dedupe(a[f]) ELSE a[f]]

\* the loop over fileMap that builds the result slice: one slice for every
\* order in which the map can be visited, every list deduplicated
resultsOf(fm) ==
    {[i \in DOMAIN order |-> dedupeLists(fm[order[i]])] : order \in Orders(DOMAIN fm)}

\* ScanDirectory after decoding: the set of slices it can return for the
\* matches, one for every order in which the loop over fileMap visits it
ScanDirectory(root, ms) == resultsOf(legacyLoop(root, ms, 1, EmptyMap))

(***************************************************************************)
(* State                                                                   *)
(***************************************************************************)

\* longest matcher output explored
MaxMatches == 3
\* number of successive scans of the same tree
MaxScans == 2
\* longest container list given to findContainingScope on its own
MaxContainers == 2
\* greatest line number given to findContainingScope on its own
MaxLine == 3

VARIABLES
    tree,         \* what the matcher reports on the tree for the whole bundle
    includeRefs,  \* argument of ScanDirectoryV2
    pc,           \* position of the running scan
    containers,   \* relPath -> containers, result of the container pass
    symbolRules,  \* rule files handed to the matcher by the symbol pass
    matches,      \* decoded matcher output of the symbol pass
    idx,          \* position in matches of the next match to consume
    fileMap,      \* relPath -> FileAnalysisV2 under construction
    emitted,      \* history: every symbol appended, with its match
    results,      \* return value of the scan
    previous,     \* return value of the scan before
    scans,        \* number of the running scan
    binary,       \* AstGrepScanner.binary, "" when no matcher is on the path
    runContainers,\* what the matcher process of the container pass hands back
    runSymbols,   \* what the matcher process of the symbol pass hands back
    containerErr, \* the error extractScopeContainers returned: "nil" or "json"
    err,          \* the error the scan returned: "nil" or "json"
    spawned,      \* history: matcher processes started by the running scan
    qLine,        \* findContainingScope on its own: the line asked for
    qContainers,  \* findContainingScope on its own: the container list
    qScope,       \* findContainingScope on its own: the answer
    analyses,     \* importer queries: the records ScanForDeps returned
    target,       \* handleGetImporters: input.File
    changedFiles, \* AnalyzeImpact: paths of the changed files
    importers,    \* handleGetImporters: the paths reported
    hits,         \* history: every increment of usageCounts, with its cause
    impacts,      \* AnalyzeImpact: the return value
    caller,       \* scanner lifetime: the user of the scanner
    rulesDir,     \* scanner lifetime: AstGrepScanner.rulesDir, "" before it is set
    tempDirs,     \* scanner lifetime: the temporary rule directories on disk
    content,      \* fileCache.content: path -> bytes
    mu,           \* fileCache.mu: number of read locks held, holder of the lock
    getPc,        \* position of each goroutine in fileCache.get
    getPath,      \* the path each goroutine called get with
    getCalls,     \* calls of get each goroutine has started
    diskReads,    \* history: path -> number of os.ReadFile calls that read it
    returned,     \* history: the pairs of path and bytes get has returned
    getErrs,      \* history: path -> number of errors get has returned for it
    call,         \* a function called on its own: its name and arguments
    ret           \* a function called on its own: its return value

vars == << tree, includeRefs, pc, containers, symbolRules, matches, idx, fileMap,
           emitted, results, previous, scans, binary, runContainers, runSymbols,
           containerErr, err, spawned, qLine, qContainers, qScope,
           analyses, target, changedFiles, importers, hits, impacts,
           caller, rulesDir, tempDirs,
           content, mu, getPc, getPath, getCalls, diskReads, returned, getErrs,
           call, ret >>

qVars == << qLine, qContainers, qScope >>

\* the environment of a scan: the matcher found and what its runs hand back
envVars == << binary, runContainers, runSymbols >>

\* the variables of the scan
scanVars == << tree, includeRefs, containers, symbolRules, matches, idx, fileMap,
               emitted, results, previous, scans, envVars, containerErr, err,
               spawned >>

impVars == << analyses, target, changedFiles, importers, hits, impacts >>

\* the variables of the operations next to the scan
lifeVars == << caller, rulesDir, tempDirs >>

cacheVars == << content, mu, getPc, getPath, getCalls, diskReads, returned, getErrs >>

callVars == << call, ret >>

sideVars == << impVars, lifeVars, cacheVars, callVars >>

\* no importer query is running
IdleImporters ==
    /\ analyses = << >>
    /\ target = ""
    /\ changedFiles = << >>
    /\ importers = << >>
    /\ hits = {}
    /\ impacts = << >>

\* no scanner has been constructed
IdleLife ==
    /\ caller = ""
    /\ rulesDir = ""
    /\ tempDirs = {}

\* goroutines that call fileCache.get, and calls each of them makes
MaxGoroutines == 3
MaxCalls == 2

Goroutines == 1..MaxGoroutines

\* newFileCache, and no goroutine inside get
IdleCache ==
    /\ content = EmptyMap
    /\ mu = [readers |-> 0, writer |-> 0]
    /\ getPc = [g \in Goroutines |-> "idle"]
    /\ getPath = [g \in Goroutines |-> ""]
    /\ getCalls = [g \in Goroutines |-> 0]
    /\ diskReads = EmptyMap
    /\ returned = {}
    /\ getErrs = EmptyMap

\* no function is being called on its own
NoCall == [fn |-> "", text |-> "", lang |-> "", line |-> 0]

IdleCalls ==
    /\ call = NoCall
    /\ ret = << >>

IdleSide == IdleImporters /\ IdleLife /\ IdleCache /\ IdleCalls

\* no scan is running
IdlePipeline ==
    /\ tree = << >>
    /\ includeRefs = FALSE
    /\ containers = EmptyMap
    /\ symbolRules = {}
    /\ matches = << >>
    /\ idx = 1
    /\ fileMap = EmptyMap
    /\ emitted = << >>
    /\ results = << >>
    /\ previous = << >>
    /\ scans = 1
    /\ binary = ""
    /\ runContainers = NormalRun
    /\ runSymbols = NormalRun
    /\ containerErr = "nil"
    /\ err = "nil"
    /\ spawned = 0

\* findContainingScope is not being asked on its own
IdleScope ==
    /\ qLine = 0
    /\ qContainers = << >>
    /\ qScope = ""

\* the matcher outputs explored: every sequence of at most MaxMatches raw matches
Streams ==
    UNION {[1..n -> 1..Len(RawMatches)] : n \in 0..MaxMatches}

Init ==
    /\ \E s \in Streams : tree = [i \in DOMAIN s |-> RawMatches[s[i]]]
    /\ includeRefs \in BOOLEAN
    /\ pc = "containers"
    /\ containers = EmptyMap
    /\ symbolRules = {}
    /\ matches = << >>
    /\ idx = 1
    /\ fileMap = EmptyMap
    /\ emitted = << >>
    /\ results = << >>
    /\ previous = << >>
    /\ scans = 1
    /\ binary = findAstGrepBinary({"ast-grep", "sg"})
    /\ runContainers = NormalRun
    /\ runSymbols = NormalRun
    /\ containerErr = "nil"
    /\ err = "nil"
    /\ spawned = 0
    /\ IdleScope
    /\ IdleSide

\* ScanDirectoryV2 up to the first pass: the Available check, then
\* extractScopeContainers, whose error leaves the scan without containers
ContainerPass ==
    /\ pc = "containers"
    /\ IF binary = ""
       THEN /\ results' = << >>
            /\ err' = "nil"
            /\ pc' = "done"
            /\ UNCHANGED << containers, containerErr, spawned >>
       ELSE \E r \in {extractScopeContainers(Root, binary, runContainers, tree)} :
                /\ containers' = IF r.err # "nil" THEN EmptyMap ELSE r.result
                /\ containerErr' = r.err
                /\ spawned' = spawned + r.spawned
                /\ pc' = "symbols"
                /\ UNCHANGED << results, err >>
    /\ UNCHANGED << tree, includeRefs, symbolRules, matches, idx, fileMap,
                    emitted, previous, scans, envVars, qVars, sideVars >>

\* ScanDirectoryV2, second pass: rule selection, matcher run, JSON decoding
SymbolPass ==
    /\ pc = "symbols"
    /\ symbolRules' = symbolRuleFiles(includeRefs)
    /\ spawned' = spawned + 1
    /\ idx' = 1
    /\ fileMap' = EmptyMap
    /\ IF tolerated(runSymbols)
       THEN /\ matches' = << >>
            /\ results' = << >>
            /\ err' = "nil"
            /\ pc' = "done"
       ELSE IF ~unmarshals(runSymbols)
       THEN /\ matches' = << >>
            /\ results' = << >>
            /\ err' = "json"
            /\ pc' = "done"
       ELSE /\ matches' = runMatcher(symbolRuleFiles(includeRefs), tree)
            /\ pc' = "loop"
            /\ UNCHANGED << results, err >>
    /\ UNCHANGED << tree, includeRefs, containers, emitted, previous,
                    scans, envVars, containerErr, qVars, sideVars >>

\* variant of keepSymbol that keeps every symbol
keepSymbol_All(sym) == TRUE

\* the test before the append: a symbol without a name is dropped
keepSymbol(sym) == sym.Name # ""

\* variant of ProcessMatch that takes the language of every match from its own
\* rule id and overwrites the language of the file with it
ProcessMatch_OwnLanguage ==
    /\ pc = "loop"
    /\ idx <= Len(matches)
    /\ LET m == matches[idx]
           relPath == Rel(Root, m.file)
           entry == [Path |-> relPath,
                     Language |-> detectLangFromRuleID(m.ruleId),
                     Symbols |-> IF relPath \in DOMAIN fileMap
                                 THEN fileMap[relPath].Symbols ELSE << >>]
           sym == receiverScope(
                      resolveScope(extractSymbolV2(m, entry.Language), relPath, containers),
                      m, entry.Language)
           added == IF keepSymbol(sym)
                    THEN [entry EXCEPT !.Symbols = appendSymbol(@, sym)]
                    ELSE entry
       IN  /\ fileMap' = [p \in DOMAIN fileMap \cup {relPath} |->
                             IF p = relPath THEN added ELSE fileMap[p]]
           /\ emitted' = IF keepSymbol(sym)
                         THEN Append(emitted, [idx |-> idx, file |-> relPath,
                                               lang |-> entry.Language, m |-> m,
                                               sym |-> sym])
                         ELSE emitted
    /\ idx' = idx + 1
    /\ UNCHANGED << tree, includeRefs, pc, containers, symbolRules, matches,
                    results, previous, scans, envVars, containerErr, err, spawned,
                    qVars, sideVars >>

\* one iteration of the loop over the matches
ProcessMatch ==
    /\ pc = "loop"
    /\ idx <= Len(matches)
    /\ LET m == matches[idx]
           relPath == Rel(Root, m.file)
           entry == IF relPath \in DOMAIN fileMap THEN fileMap[relPath]
                    ELSE [Path |-> relPath,
                          Language |-> detectLangFromRuleID(m.ruleId),
                          Symbols |-> << >>]
           sym == receiverScope(
                      resolveScope(extractSymbolV2(m, entry.Language), relPath, containers),
                      m, entry.Language)
           added == IF keepSymbol(sym)
                    THEN [entry EXCEPT !.Symbols = appendSymbol(@, sym)]
                    ELSE entry
       IN  /\ fileMap' = [p \in DOMAIN fileMap \cup {relPath} |->
                             IF p = relPath THEN added ELSE fileMap[p]]
           /\ emitted' = IF keepSymbol(sym)
                         THEN Append(emitted, [idx |-> idx, file |-> relPath,
                                               lang |-> entry.Language, m |-> m,
                                               sym |-> sym])
                         ELSE emitted
    /\ idx' = idx + 1
    /\ UNCHANGED << tree, includeRefs, pc, containers, symbolRules, matches,
                    results, previous, scans, envVars, containerErr, err, spawned,
                    qVars, sideVars >>

\* the loop that turns fileMap into the result slice, and the return
Return ==
    /\ pc = "loop"
    /\ idx > Len(matches)
    /\ \E order \in Orders(DOMAIN fileMap) :
          results' = [i \in DOMAIN order |-> finishFile(fileMap[order[i]])]
    /\ fileMap' = [p \in DOMAIN fileMap |-> finishFile(fileMap[p])]
    /\ pc' = "done"
    /\ UNCHANGED << tree, includeRefs, containers, symbolRules, matches, idx,
                    emitted, previous, scans, envVars, containerErr, err, spawned,
                    qVars, sideVars >>

\* the caller scans the same tree again
Rescan ==
    /\ pc = "done"
    /\ scans < MaxScans
    /\ previous' = results
    /\ scans' = scans + 1
    /\ pc' = "containers"
    /\ containers' = EmptyMap
    /\ symbolRules' = {}
    /\ matches' = << >>
    /\ idx' = 1
    /\ fileMap' = EmptyMap
    /\ emitted' = << >>
    /\ results' = << >>
    /\ containerErr' = "nil"
    /\ err' = "nil"
    /\ spawned' = 0
    /\ UNCHANGED << tree, includeRefs, envVars, qVars, sideVars >>

Next == ContainerPass \/ SymbolPass \/ ProcessMatch \/ Return \/ Rescan

Spec == Init /\ [][Next]_vars

\* longest matcher output explored together with failing matcher runs
MaxFaultMatches == 1

\* a scan in any environment: any of the known binaries present or absent,
\* any exit status and output shape of either matcher run
InitFaults ==
    /\ \E s \in UNION {[1..n -> 1..Len(RawMatches)] : n \in 0..MaxFaultMatches} :
          tree = [i \in DOMAIN s |-> RawMatches[s[i]]]
    /\ includeRefs \in BOOLEAN
    /\ \E onPath \in SUBSET {"ast-grep", "sg"} : binary = findAstGrepBinary(onPath)
    /\ runContainers \in Runs
    /\ runSymbols \in Runs
    /\ pc = "containers"
    /\ containers = EmptyMap
    /\ symbolRules = {}
    /\ matches = << >>
    /\ idx = 1
    /\ fileMap = EmptyMap
    /\ emitted = << >>
    /\ results = << >>
    /\ previous = << >>
    /\ scans = 1
    /\ containerErr = "nil"
    /\ err = "nil"
    /\ spawned = 0
    /\ IdleScope
    /\ IdleSide

NextFaults == ContainerPass \/ SymbolPass \/ ProcessMatch \/ Return

SpecFaults == InitFaults /\ [][NextFaults]_vars

\* longest matcher output explored on a tree with a file that cannot be read
MaxUnreadableMatches == 3

\* what the matcher reports on a tree where gone.ts is removed, or made
\* unreadable, after the matcher has seen it: a class on lines 2..4 with a
\* method, next to the class and a method of the readable b.ts
UnreadableMatches ==
    << ScanMatch("/r/gone.ts", "ts-container-class", 2, 0,
                 "class G {\n  m() {}\n}", "class G {\n  m() {}\n}"),
       ScanMatch("/r/gone.ts", "ts-methods", 3, 2, "m() {}", "  m() {}"),
       RawMatches[6],
       RawMatches[7] >>

InitUnreadable ==
    /\ \E s \in UNION {[1..n -> 1..Len(UnreadableMatches)] :
                          n \in 0..MaxUnreadableMatches} :
          tree = [i \in DOMAIN s |-> UnreadableMatches[s[i]]]
    /\ includeRefs \in BOOLEAN
    /\ binary = findAstGrepBinary({"ast-grep", "sg"})
    /\ runContainers = NormalRun
    /\ runSymbols = NormalRun
    /\ pc = "containers"
    /\ containers = EmptyMap
    /\ symbolRules = {}
    /\ matches = << >>
    /\ idx = 1
    /\ fileMap = EmptyMap
    /\ emitted = << >>
    /\ results = << >>
    /\ previous = << >>
    /\ scans = 1
    /\ containerErr = "nil"
    /\ err = "nil"
    /\ spawned = 0
    /\ IdleScope
    /\ IdleSide

NextUnreadable == ContainerPass \/ SymbolPass \/ ProcessMatch \/ Return

SpecUnreadable == InitUnreadable /\ [][NextUnreadable]_vars

\* longest matcher output explored with rule ids of several languages
MaxMixedMatches == 3

\* matches of rules of several languages on the same files: the matcher's
\* output is taken as it comes, whatever rule reported on whatever file
MixedMatches ==
    << ScanMatch("/r/m.js", "js-functions", 0, 0,
                 "export function k() {}", "export function k() {}"),
       ScanMatch("/r/m.js", "ts-functions", 1, 0,
                 "export function h() {}", "export function h() {}"),
       ScanMatch("/r/m.js", "go-functions", 2, 0,
                 "func (t *T) Run() {}", "func (t *T) Run() {}"),
       ScanMatch("/r/b.ts", "go-methods", 5, 0,
                 "func (t *T) Run() {}", "func (t *T) Run() {}"),
       ScanMatch("/r/b.ts", "ts-methods", 1, 2, "m() {}", "  m() {}") >>

\* the loop of ScanDirectoryV2 over a decoded matcher output of mixed rules
InitMixed ==
    /\ \E s \in UNION {[1..n -> 1..Len(MixedMatches)] : n \in 0..MaxMixedMatches} :
          matches = [i \in DOMAIN s |-> MixedMatches[s[i]]]
    /\ tree = matches
    /\ containers = EmptyMap
    /\ includeRefs = FALSE
    /\ symbolRules = symbolRuleFiles(FALSE)
    /\ binary = findAstGrepBinary({"ast-grep", "sg"})
    /\ runContainers = NormalRun
    /\ runSymbols = NormalRun
    /\ pc = "loop"
    /\ idx = 1
    /\ fileMap = EmptyMap
    /\ emitted = << >>
    /\ results = << >>
    /\ previous = << >>
    /\ scans = 1
    /\ containerErr = "nil"
    /\ err = "nil"
    /\ spawned = 2
    /\ IdleScope
    /\ IdleSide

NextMixed == ProcessMatch \/ Return

SpecMixed == InitMixed /\ [][NextMixed]_vars

\* match texts handed to the extractors one at a time: empty and malformed
\* text next to declarations of the supported languages
ExtractTexts ==
    { "", " ", "(", ")", "[", "=", "@", "func ", "func (", "type ", "class ",
      "const ", "new ", "import ",
      "func (t *T) Run() {}", "func (*T) Stop() {}", "func Map[T any](x T) {}",
      "func (s *Stack[T]) Push() {}",
      "type S struct {}", "type Pair[K comparable, V any] struct{}",
      "class A<T> {}", "interface I { m(): void }", "m() {}", "#p() {}",
      "constructor() {}", "static {}", "get [x]() {}", "[k: string]: number",
      "const x = 1;", "const [a, b] = f();", "function* g() {}", "foo(1)",
      "import x from 'y'", "declare const API_KEY: string;" }

\* a container match without a name: an anonymous default export
AnonymousClass ==
    ScanMatch("/r/b.ts", "ts-container-class", 6, 0,
              "export default class {\n}", "export default class {")

\* the container matches explored with the single match: none, those of the
\* tree, and those of the tree with the anonymous class
ContainerStreams ==
    { << >>,
      runMatcher(containerRuleFiles, RawMatches),
      runMatcher(containerRuleFiles, RawMatches) \o << AnonymousClass >> }

\* the loop of ScanDirectoryV2 over a matcher output of one match: any rule
\* family that the switch of extractSymbolV2 or the if-chain of ScanDirectory
\* tests, of either language (the ambient declarations are TypeScript's), on
\* any of the texts, with or without containers
InitExtract ==
    /\ \E lang \in {"go", "ts"}, text \in ExtractTexts,
          family \in {CaseSuffixes[k] : k \in DOMAIN CaseSuffixes}
                          \cup {LegacySuffixes[k] : k \in DOMAIN LegacySuffixes} :
          /\ family = "-ambient-declarations" => lang = "ts"
          /\ matches = << ScanMatch(IF lang = "go" THEN "/r/a.go" ELSE "/r/b.ts",
                                    lang \o family, 1, 0, text, text) >>
    /\ \E cs \in ContainerStreams :
          /\ tree = cs \o matches
          /\ containers = extractScopeContainers(Root, "ast-grep", NormalRun, cs).result
    /\ includeRefs = TRUE
    /\ symbolRules = symbolRuleFiles(TRUE)
    /\ binary = findAstGrepBinary({"ast-grep", "sg"})
    /\ runContainers = NormalRun
    /\ runSymbols = NormalRun
    /\ pc = "loop"
    /\ idx = 1
    /\ fileMap = EmptyMap
    /\ emitted = << >>
    /\ results = << >>
    /\ previous = << >>
    /\ scans = 1
    /\ containerErr = "nil"
    /\ err = "nil"
    /\ spawned = 2
    /\ IdleScope
    /\ IdleSide

NextExtract == ProcessMatch \/ Return

SpecExtract == InitExtract /\ [][NextExtract]_vars

(***************************************************************************)
(* findContainingScope on its own                                          *)
(***************************************************************************)

\* the containers explored: two names, every range within 0..MaxLine
ScopeContainers ==
    {[Kind |-> kn[1], Name |-> kn[2], StartLine |-> s, EndLine |-> e] :
        kn \in {<< "class", "A" >>, << "interface", "B" >>},
        s \in 0..MaxLine, e \in 0..MaxLine}

\* container lists as parseContainerMatch builds them for readable files:
\* an end line is never before its start line
ContainerLists ==
    UNION {[1..n -> {c \in ScopeContainers : c.StartLine <= c.EndLine}] :
              n \in 0..MaxContainers}

InitScope ==
    /\ qContainers \in ContainerLists
    /\ qLine \in 0..MaxLine
    /\ qScope = ""
    /\ pc = "scope"
    /\ IdlePipeline
    /\ IdleSide

\* one call of findContainingScope
ResolveScope ==
    /\ pc = "scope"
    /\ qScope' = findContainingScope(qLine, qContainers)
    /\ pc' = "resolved"
    /\ UNCHANGED << scanVars, qLine, qContainers, sideVars >>

NextScope == ResolveScope

SpecScope == InitScope /\ [][NextScope]_vars

(***************************************************************************)
(* Importer queries: handleGetImporters and AnalyzeImpact                  *)
(***************************************************************************)

\* filepath.Dir
Dir(path) == Clean(Slice(path, 0, LastIndex(path, "/") + 1))

\* filepath.Base
Base(path) ==
    LET stripped == TrimRight(path, {"/"})
        last == From(stripped, LastIndex(stripped, "/") + 1)
    IN  IF path = "" THEN "."
        ELSE IF last = "" THEN "/"
        ELSE last

\* filepath.Ext
Ext(path) ==
    IF LastIndex(path, ".") > LastIndex(path, "/")
    THEN From(path, LastIndex(path, "."))
    ELSE ""

\* the test handleGetImporters applies to one import of an analysed file
importMatches(imp, file) ==
    LET targetBase == Base(file)
        targetNoExt == TrimSuffix(targetBase, Ext(targetBase))
        targetDir == Dir(file)
        impBase == Base(imp)
        impNoExt == TrimSuffix(impBase, Ext(impBase))
    IN  \/ impBase = targetBase
        \/ impNoExt = targetNoExt
        \/ HasSuffix(imp, file)
        \/ HasSuffix(imp, targetDir)
        \/ imp = targetDir

\* handleGetImporters: the paths of the analysed files reported for file
handleGetImporters(as, file) ==
    LET reported(a) == /\ Dir(a.Path) # Dir(file)
                       /\ \E j \in DOMAIN a.Imports : importMatches(a.Imports[j], file)
        kept == SelectSeq(as, reported)
    IN  [i \in DOMAIN kept |-> kept[i].Path]

\* AnalyzeImpact, first loop: base name -> path, the last changed file wins
changedBases(cf) ==
    LET base(path) == TrimSuffix(Base(path), Ext(path))
    IN  [b \in {base(cf[i]) : i \in DOMAIN cf} |->
            cf[MaxOf({i \in DOMAIN cf : base(cf[i]) = b})]]

\* AnalyzeImpact, first loop: directory name -> path, the first changed file
\* of a directory other than "." wins
changedDirs(cf) ==
    LET inDir == {i \in DOMAIN cf : Dir(cf[i]) # "." /\ Dir(cf[i]) # ""}
    IN  [d \in {Base(Dir(cf[i])) : i \in inDir} |->
            cf[MinOf({i \in inDir : Base(Dir(cf[i])) = d})]]

\* AnalyzeImpact, second loop: one record per increment of usageCounts; via
\* tells the increment by file name from the increment by directory name,
\* which one import can both cause on the same key
usageHits(as, cf) ==
    LET impBase(imp) == TrimSuffix(Base(imp), Ext(Base(imp)))
        pairs == UNION {{<<i, j>> : j \in DOMAIN as[i].Imports} : i \in DOMAIN as}
        byFile == {[a |-> i, imp |-> j, via |-> "changedBases", by |-> as[i].Path,
                    changed |-> changedBases(cf)[impBase(as[i].Imports[j])],
                    key |-> changedBases(cf)[impBase(as[i].Imports[j])]] :
                   <<i, j>> \in {<<i, j>> \in pairs :
                       /\ impBase(as[i].Imports[j]) \in DOMAIN changedBases(cf)
                       /\ as[i].Path # changedBases(cf)[impBase(as[i].Imports[j])]}}
        byDir == {[a |-> i, imp |-> j, via |-> "changedDirs", by |-> as[i].Path,
                   changed |-> changedDirs(cf)[impBase(as[i].Imports[j])],
                   key |-> Dir(changedDirs(cf)[impBase(as[i].Imports[j])]) \o "/"] :
                  <<i, j>> \in {<<i, j>> \in pairs :
                      /\ impBase(as[i].Imports[j]) \in DOMAIN changedDirs(cf)
                      /\ Dir(as[i].Path)
                             # Dir(changedDirs(cf)[impBase(as[i].Imports[j])])}}
    IN  byFile \cup byDir

\* AnalyzeImpact: the map usageCounts after the second loop
usageCounts(hs) ==
    [k \in {h.key : h \in hs} |-> Cardinality({h \in hs : h.key = k})]

\* the analysed files explored, and the import lists each of them can have
DepFiles == << "pkg/a.go", "cmd/m.go", "src/util.ts", "src/main.ts" >>

ImportLists == { << >>, << "./util" >>, << "./util", "x/pkg" >> }

Targets == { "pkg/a.go", "src/util.ts" }

ChangedLists == { << "src/util.ts" >>, << "pkg/a.go" >>, << "pkg/a.go", "src/util.ts" >> }

\* the records come in any order: the ScanForDeps of one argument returns the
\* slice ScanDirectory builds by ranging over its map (the ScanForDeps of
\* three arguments appends in the order of filepath.Walk, which is one of them)
InitImporters ==
    /\ \E order \in Orders({DepFiles[i] : i \in DOMAIN DepFiles}),
          imps \in [DOMAIN DepFiles -> ImportLists] :
          analyses = [i \in DOMAIN order |->
                         [Path |-> order[i], Imports |-> imps[i]]]
    /\ target \in Targets
    /\ changedFiles \in ChangedLists
    /\ importers = << >>
    /\ hits = {}
    /\ impacts = << >>
    /\ pc = "deps"
    /\ IdlePipeline
    /\ IdleScope
    /\ IdleLife
    /\ IdleCache
    /\ IdleCalls

\* handleGetImporters after its scan
GetImporters ==
    /\ pc = "deps"
    /\ importers' = handleGetImporters(analyses, target)
    /\ pc' = "importers"
    /\ UNCHANGED << scanVars, qVars, lifeVars, cacheVars, callVars, analyses, target,
                    changedFiles, hits, impacts >>

\* AnalyzeImpact after its scan: counting, the loop over the map usageCounts,
\* and the sort by descending count
AnalyzeImpact ==
    /\ pc = "deps"
    /\ hits' = usageHits(analyses, changedFiles)
    /\ LET counts == usageCounts(usageHits(analyses, changedFiles))
       IN  \E order \in Orders(DOMAIN counts) :
              /\ \A i, j \in DOMAIN order :
                     i < j => counts[order[i]] >= counts[order[j]]
              /\ impacts' = [i \in DOMAIN order |->
                                [File |-> Base(order[i]), UsedBy |-> counts[order[i]]]]
    /\ pc' = "impact"
    /\ UNCHANGED << scanVars, qVars, lifeVars, cacheVars, callVars, analyses, target,
                    changedFiles, importers >>

NextImporters == GetImporters \/ AnalyzeImpact

SpecImporters == InitImporters /\ [][NextImporters]_vars

(***************************************************************************)
(* Scanner lifetime: NewAstGrepScanner, Close and their users              *)
(***************************************************************************)

\* the directory os.MkdirTemp creates
TempDir == "/tmp/codemap-sg-rules-1"

\* Close: os.RemoveAll of the rule directory, if the scanner has one
Close(dirs, dir) == IF dir # "" THEN dirs \ {dir} ELSE dirs

\* the error ScanDirectory returns for a matcher run
scanDirectoryErr(bin, run) ==
    IF bin = "" THEN "nil"
    ELSE IF tolerated(run) THEN "nil"
    ELSE IF ~unmarshals(run) THEN "json"
    ELSE "nil"

\* the users that test the error of NewAstGrepScanner
CheckingCallers == {"ScanForDeps", "runSymbolsMode"}

\* the users that take their scanner from NewAstGrepAnalyzer, which drops the
\* error: TestAstGrepAnalyzer never calls Close, TestGoSymbolsExtraction
\* defers Close once it has found the matcher available
AnalyzerCallers == {"TestAstGrepAnalyzer", "TestGoSymbolsExtraction"}

\* the users of a scanner, in any environment
InitLife ==
    /\ caller \in CheckingCallers \cup AnalyzerCallers
    /\ \E onPath \in SUBSET {"ast-grep", "sg"} : binary = findAstGrepBinary(onPath)
    /\ runSymbols \in Runs
    /\ runContainers = NormalRun
    /\ rulesDir = ""
    /\ tempDirs = {}
    /\ pc = "new"
    /\ tree = << >>
    /\ includeRefs = FALSE
    /\ containers = EmptyMap
    /\ symbolRules = {}
    /\ matches = << >>
    /\ idx = 1
    /\ fileMap = EmptyMap
    /\ emitted = << >>
    /\ results = << >>
    /\ previous = << >>
    /\ scans = 1
    /\ containerErr = "nil"
    /\ err = "nil"
    /\ spawned = 0
    /\ IdleScope
    /\ IdleImporters
    /\ IdleCache
    /\ IdleCalls

\* where the caller is after NewAstGrepScanner returned an error: ScanForDeps
\* returns it, runSymbolsMode calls os.Exit(1), and the user of
\* NewAstGrepAnalyzer goes on with the nil scanner it was handed
afterNewError(c) ==
    IF c = "ScanForDeps" THEN "returned"
    ELSE IF c = "runSymbolsMode" THEN "exited"
    ELSE "nil scanner"

\* NewAstGrepScanner and what its caller does with the error, which
\* NewAstGrepAnalyzer drops: os.MkdirTemp can fail, sgRules.ReadDir can fail
\* after the directory was made
NewScanner ==
    /\ pc = "new"
    /\ \E mkdirOK, readDirOK \in BOOLEAN :
          IF ~mkdirOK
          THEN /\ err' = IF caller \in AnalyzerCallers THEN "nil" ELSE "mkdir"
               /\ UNCHANGED << rulesDir, tempDirs >>
               /\ pc' = afterNewError(caller)
          ELSE IF ~readDirOK
          THEN /\ err' = IF caller \in AnalyzerCallers THEN "nil" ELSE "readdir"
               /\ tempDirs' = (tempDirs \cup {TempDir}) \ {TempDir}
               /\ rulesDir' = rulesDir
               /\ pc' = afterNewError(caller)
          ELSE /\ tempDirs' = tempDirs \cup {TempDir}
               /\ rulesDir' = TempDir
               /\ err' = "nil"
               /\ pc' = "created"
    /\ UNCHANGED << tree, includeRefs, containers, symbolRules, matches, idx,
                    fileMap, emitted, results, previous, scans, envVars,
                    containerErr, spawned, qVars, impVars, cacheVars, callVars, caller >>

\* defer Close() and the Available test of the caller: without a matcher
\* ScanForDeps returns an error, which runs the deferred Close,
\* runSymbolsMode calls os.Exit(1), which runs no deferred call, and the users
\* of NewAstGrepAnalyzer skip their test before any Close is deferred; on a
\* nil scanner Available reads s.binary and panics
CheckAvailable ==
    /\ pc \in {"created", "nil scanner"}
    /\ IF pc = "nil scanner"
       THEN /\ pc' = "panicked"
            /\ UNCHANGED << err, tempDirs >>
       ELSE IF binary # ""
       THEN /\ pc' = "scan"
            /\ UNCHANGED << err, tempDirs >>
       ELSE IF caller = "ScanForDeps"
       THEN /\ err' = "unavailable"
            /\ tempDirs' = Close(tempDirs, rulesDir)
            /\ pc' = "returned"
       ELSE IF caller = "runSymbolsMode"
       THEN /\ err' = "unavailable"
            /\ tempDirs' = tempDirs
            /\ pc' = "exited"
       ELSE /\ pc' = "returned"
            /\ UNCHANGED << err, tempDirs >>
    /\ UNCHANGED << tree, includeRefs, containers, symbolRules, matches, idx,
                    fileMap, emitted, results, previous, scans, envVars,
                    containerErr, spawned, qVars, impVars, cacheVars, callVars, caller, rulesDir >>

\* ScanDirectory and the end of the caller: ScanForDeps returns what the scan
\* returned, runSymbolsMode renders and returns, or calls os.Exit(1) on an
\* error of the scan; a return runs the deferred Close, which
\* TestAstGrepAnalyzer has not deferred
ScanAndLeave ==
    /\ pc = "scan"
    /\ err' = scanDirectoryErr(binary, runSymbols)
    /\ spawned' = spawned + 1
    /\ IF caller = "runSymbolsMode" /\ scanDirectoryErr(binary, runSymbols) # "nil"
       THEN /\ tempDirs' = tempDirs
            /\ pc' = "exited"
       ELSE IF caller = "TestAstGrepAnalyzer"
       THEN /\ tempDirs' = tempDirs
            /\ pc' = "returned"
       ELSE /\ tempDirs' = Close(tempDirs, rulesDir)
            /\ pc' = "returned"
    /\ UNCHANGED << tree, includeRefs, containers, symbolRules, matches, idx,
                    fileMap, emitted, results, previous, scans, envVars,
                    containerErr, qVars, impVars, cacheVars, callVars, caller, rulesDir >>

NextLife == NewScanner \/ CheckAvailable \/ ScanAndLeave

SpecLife == InitLife /\ [][NextLife]_vars

\* a caller that can take a step takes it
SpecLifeFair == SpecLife /\ WF_vars(NextLife)

(***************************************************************************)
(* fileCache.get under concurrent callers                                  *)
(***************************************************************************)

\* the paths asked for, and the bytes os.ReadFile can find on disk
CachePaths == { "/r/a.go", "/r/b.ts" }

DiskContents == { "v1", "v2" }

\* sync.RWMutex: RLock waits for the holder of the lock to release it
canRLock(m) == m.writer = 0

\* variant of canLock that does not wait for read locks
canLock_IgnoreReaders(m) == m.writer = 0

\* sync.RWMutex: Lock waits for the holder and for every read lock
canLock(m) == m.writer = 0 /\ m.readers = 0

\* variant of doubleCheck that never finds the path
doubleCheck_Skipped(c, path) == FALSE

\* the second lookup of get, under the lock
doubleCheck(c, path) == path \in DOMAIN c

\* the map with one entry set
store(c, path, data) ==
    [p \in DOMAIN c \cup {path} |-> IF p = path THEN data ELSE c[p]]

InitCache ==
    /\ IdleCache
    /\ pc = "cache"
    /\ IdlePipeline
    /\ IdleScope
    /\ IdleImporters
    /\ IdleLife
    /\ IdleCalls

\* what every step of get leaves alone
otherVars == << pc, scanVars, qVars, impVars, lifeVars, callVars >>

\* a goroutine calls get(path)
CallGet(g) ==
    /\ pc = "cache"
    /\ getPc[g] = "idle"
    /\ getCalls[g] < MaxCalls
    /\ \E path \in CachePaths : getPath' = [getPath EXCEPT ![g] = path]
    /\ getCalls' = [getCalls EXCEPT ![g] = @ + 1]
    /\ getPc' = [getPc EXCEPT ![g] = "rlock"]
    /\ UNCHANGED << content, mu, diskReads, returned, getErrs, otherVars >>

\* c.mu.RLock()
RLock(g) ==
    /\ pc = "cache"
    /\ getPc[g] = "rlock"
    /\ canRLock(mu)
    /\ mu' = [mu EXCEPT !.readers = @ + 1]
    /\ getPc' = [getPc EXCEPT ![g] = "rlocked"]
    /\ UNCHANGED << content, getPath, getCalls, diskReads, returned, getErrs, otherVars >>

\* the first lookup and c.mu.RUnlock(): a hit returns the cached bytes
FirstCheck(g) ==
    /\ pc = "cache"
    /\ getPc[g] = "rlocked"
    /\ mu' = [mu EXCEPT !.readers = @ - 1]
    /\ IF getPath[g] \in DOMAIN content
       THEN /\ returned' = returned \cup {<< getPath[g], content[getPath[g]] >>}
            /\ getPc' = [getPc EXCEPT ![g] = "idle"]
       ELSE /\ returned' = returned
            /\ getPc' = [getPc EXCEPT ![g] = "lock"]
    /\ UNCHANGED << content, getPath, getCalls, diskReads, getErrs, otherVars >>

\* c.mu.Lock()
Lock(g) ==
    /\ pc = "cache"
    /\ getPc[g] = "lock"
    /\ canLock(mu)
    /\ mu' = [mu EXCEPT !.writer = g]
    /\ getPc' = [getPc EXCEPT ![g] = "locked"]
    /\ UNCHANGED << content, getPath, getCalls, diskReads, returned, getErrs, otherVars >>

\* variant of ReadAndStore that stores empty bytes for a path whose read
\* failed
ReadAndStore_CacheFailure(g) ==
    /\ pc = "cache"
    /\ getPc[g] = "locked"
    /\ IF doubleCheck(content, getPath[g])
       THEN /\ returned' = returned \cup {<< getPath[g], content[getPath[g]] >>}
            /\ UNCHANGED << content, diskReads, getErrs >>
       ELSE \/ /\ getErrs' = store(getErrs, getPath[g],
                         IF getPath[g] \in DOMAIN getErrs
                         THEN getErrs[getPath[g]] + 1 ELSE 1)
               /\ content' = store(content, getPath[g], "")
               /\ UNCHANGED << diskReads, returned >>
            \/ \E data \in DiskContents :
                  /\ content' = store(content, getPath[g], data)
                  /\ diskReads' = store(diskReads, getPath[g],
                         IF getPath[g] \in DOMAIN diskReads
                         THEN diskReads[getPath[g]] + 1 ELSE 1)
                  /\ returned' = returned \cup {<< getPath[g], data >>}
                  /\ UNCHANGED getErrs
    /\ mu' = [mu EXCEPT !.writer = 0]
    /\ getPc' = [getPc EXCEPT ![g] = "idle"]
    /\ UNCHANGED << getPath, getCalls, otherVars >>

\* the rest of get under the lock: the second lookup, os.ReadFile, which
\* fails or finds some bytes, the write to the map, and the deferred Unlock
ReadAndStore(g) ==
    /\ pc = "cache"
    /\ getPc[g] = "locked"
    /\ IF doubleCheck(content, getPath[g])
       THEN /\ returned' = returned \cup {<< getPath[g], content[getPath[g]] >>}
            /\ UNCHANGED << content, diskReads, getErrs >>
       ELSE \/ /\ getErrs' = store(getErrs, getPath[g],
                         IF getPath[g] \in DOMAIN getErrs
                         THEN getErrs[getPath[g]] + 1 ELSE 1)
               /\ UNCHANGED << content, diskReads, returned >>
            \/ \E data \in DiskContents :
                  /\ content' = store(content, getPath[g], data)
                  /\ diskReads' = store(diskReads, getPath[g],
                         IF getPath[g] \in DOMAIN diskReads
                         THEN diskReads[getPath[g]] + 1 ELSE 1)
                  /\ returned' = returned \cup {<< getPath[g], data >>}
                  /\ UNCHANGED getErrs
    /\ mu' = [mu EXCEPT !.writer = 0]
    /\ getPc' = [getPc EXCEPT ![g] = "idle"]
    /\ UNCHANGED << getPath, getCalls, otherVars >>

NextCache ==
    \E g \in Goroutines :
        CallGet(g) \/ RLock(g) \/ FirstCheck(g) \/ Lock(g) \/ ReadAndStore(g)

SpecCache == InitCache /\ [][NextCache]_vars

(***************************************************************************)
(* Functions called on their own                                           *)
(***************************************************************************)

RECURSIVE Texts(_, _)
\* every text of at most n characters over the alphabet
Texts(alphabet, n) ==
    IF n = 0 THEN {""}
    ELSE LET shorter == Texts(alphabet, n - 1)
         IN  shorter \cup {s \o c : s \in shorter, c \in alphabet}

\* longest content given to findEndLine on its own
MaxContentLen == 5
\* greatest start line given to findEndLine on its own
MaxStartLine == 2

\* the calls of findEndLine explored: every content of braces and newlines
EndLineCalls ==
    {[fn |-> "findEndLine", text |-> c, lang |-> "", line |-> s] :
        c \in Texts({"{", "}", "\n"}, MaxContentLen), s \in 0..MaxStartLine}

RECURSIVE Spaced(_)
\* the words of a sequence, each followed by one blank
Spaced(ws) == IF ws = << >> THEN "" ELSE Head(ws) \o " " \o Spaced(Tail(ws))

\* most modifier words in front of a declaration given to extractModifiers
MaxModifiers == 2

\* modifier words put in front of a declaration, in every order
ModifierPrefixes ==
    LET words == {"export", "default", "async", "static", "public", "readonly"}
    IN  {Spaced(s) : s \in {q \in UNION {[1..k -> words] : k \in 0..MaxModifiers} :
                                 \A i, j \in DOMAIN q : q[i] = q[j] => i = j}}

\* declarations given to extractModifiers: with and without a body, with
\* modifier words in the body and on a later line
ModifierTails ==
    {"function f() {}", "x = 1", "class A {\n  static x = 1\n}",
     "f() { return async () => 1 }"}

\* the calls of extractModifiers explored
ModifierCalls ==
    {[fn |-> "extractModifiers", text |-> pre \o tail, lang |-> l, line |-> 0] :
        pre \in ModifierPrefixes, tail \in ModifierTails,
        l \in {"typescript", "javascript", "go"}}

\* texts given to extractVarDeclarationNames: one and several declarators,
\* commas inside calls, object and array literals and destructuring heads,
\* and texts that are no var declaration
VarDeclTexts ==
    {"var x = 1", "var x = 1, y = 2", "var name = 'hello'",
     "var a = 1, b = 2, c = 3", "var obj = {a: 1, b: 2}", "const x = 1",
     "var f = g(1, 2), h = [3, 4]", "var {a, b} = o", "var [p, q] = r, s = 1",
     "var x", "var x;", "var ", "", "var x = f(a, {b: 1, c: 2}), y",
     "x, y", "let x = 1, y = 2", "var a, b", "var 1, b", "var a,, b,",
     "  var i = 0, n = xs.length;"}

\* the calls of extractVarDeclarationNames explored
VarDeclCalls ==
    {[fn |-> "extractVarDeclarationNames", text |-> x, lang |-> l, line |-> 0] :
        x \in VarDeclTexts, l \in {"typescript", "javascript"}}

Calls == EndLineCalls \cup ModifierCalls \cup VarDeclCalls

InitCalls ==
    /\ call \in Calls
    /\ ret = << >>
    /\ pc = "call"
    /\ IdlePipeline
    /\ IdleScope
    /\ IdleImporters
    /\ IdleLife
    /\ IdleCache

\* what a function called on its own leaves alone
calleeVars == << call, scanVars, qVars, impVars, lifeVars, cacheVars >>

\* findEndLine(content, startLine)
FindEndLine ==
    /\ pc = "call"
    /\ call.fn = "findEndLine"
    /\ ret' = findEndLine(call.text, call.line)
    /\ pc' = "ret"
    /\ UNCHANGED calleeVars

\* extractModifiers(text, lang)
ExtractModifiers ==
    /\ pc = "call"
    /\ call.fn = "extractModifiers"
    /\ ret' = extractModifiers(call.text, call.lang)
    /\ pc' = "ret"
    /\ UNCHANGED calleeVars

\* extractVarDeclarationNames(text, lang)
ExtractVarDeclarationNames ==
    /\ pc = "call"
    /\ call.fn = "extractVarDeclarationNames"
    /\ ret' = extractVarDeclarationNames(call.text, call.lang)
    /\ pc' = "ret"
    /\ UNCHANGED calleeVars

NextCalls == FindEndLine \/ ExtractModifiers \/ ExtractVarDeclarationNames

SpecCalls == InitCalls /\ [][NextCalls]_vars

(***************************************************************************)
(* AnalyzeFile                                                             *)
(***************************************************************************)

\* longest matcher output explored under AnalyzeFile
MaxAnalyzeMatches == 3

\* what the matcher can report on a tree with util.go, main.go and a second
\* util.go in the subdirectory sub
AnalyzeMatches ==
    << ScanMatch("/r/util.go", "go-functions", 0, 0, "func Top() {}", "func Top() {}"),
       ScanMatch("/r/sub/util.go", "go-functions", 0, 0, "func Sub() {}", "func Sub() {}"),
       ScanMatch("/r/main.go", "go-functions", 0, 0, "func main() {}", "func main() {}"),
       ScanMatch("/r/util.go", "go-structs", 2, 0, "type S struct {}", "type S struct {}") >>

\* the files AnalyzeFile is asked for
AnalyzePaths == {"/r/util.go", "/r/sub/util.go", "/r/main.go"}

\* the matcher scans a directory: the matches of the files below it
matchesBelow(dir, out) == SelectSeq(out, LAMBDA m : HasPrefix(m.file, dir \o "/"))

\* the loop of AnalyzeFile: the first result whose base name is that of the
\* file asked for, as a list of one record, the empty list for nil
firstWithBase(rs, base) ==
    LET same == {i \in DOMAIN rs : Base(rs[i].Path) = base}
    IN  IF same = {} THEN << >> ELSE << rs[MinOf(same)] >>

InitAnalyze ==
    /\ \E s \in UNION {[1..n -> 1..Len(AnalyzeMatches)] : n \in 0..MaxAnalyzeMatches} :
          tree = [i \in DOMAIN s |-> AnalyzeMatches[s[i]]]
    /\ \E path \in AnalyzePaths :
          call = [fn |-> "AnalyzeFile", text |-> path, lang |-> "", line |-> 0]
    /\ ret = << >>
    /\ pc = "call"
    /\ includeRefs = FALSE
    /\ containers = EmptyMap
    /\ symbolRules = {}
    /\ matches = << >>
    /\ idx = 1
    /\ fileMap = EmptyMap
    /\ emitted = << >>
    /\ results = << >>
    /\ previous = << >>
    /\ scans = 1
    /\ binary = findAstGrepBinary({"ast-grep", "sg"})
    /\ runContainers = NormalRun
    /\ runSymbols = NormalRun
    /\ containerErr = "nil"
    /\ err = "nil"
    /\ spawned = 0
    /\ IdleScope
    /\ IdleImporters
    /\ IdleLife
    /\ IdleCache

\* AnalyzeFile(filePath): ScanDirectory on the directory of the file, then
\* the search of the results by base name
AnalyzeFile ==
    /\ pc = "call"
    /\ call.fn = "AnalyzeFile"
    /\ \E rs \in ScanDirectory(Dir(call.text), matchesBelow(Dir(call.text), tree)) :
          /\ analyses' = rs
          /\ ret' = firstWithBase(rs, Base(call.text))
    /\ spawned' = spawned + 1
    /\ pc' = "ret"
    /\ UNCHANGED << call, tree, includeRefs, containers, symbolRules, matches, idx,
                    fileMap, emitted, results, previous, scans, envVars,
                    containerErr, err, qVars, lifeVars, cacheVars,
                    target, changedFiles, importers, hits, impacts >>

NextAnalyze == AnalyzeFile

SpecAnalyze == InitAnalyze /\ [][NextAnalyze]_vars

(***************************************************************************)
(* ScanDirectory and ScanDirectoryV2 on the same tree                      *)
(***************************************************************************)

\* longest matcher output explored with both scans
MaxRefineMatches == 2

\* the matches of the definition rules among the raw matches of the tree
DefinitionMatches ==
    SelectSeq(RawMatches, LAMBDA m : determineRole(m.ruleId) = RoleDefinition
                                     /\ ~Contains(m.ruleId, "-container-"))

\* the rule files ScanDirectory hands to the matcher: all but sgconfig.yml
legacyRuleFiles == {e \in RuleFiles : HasSuffix(e, ".yml") /\ e # "sgconfig.yml"}

InitRefine ==
    /\ \E s \in UNION {[1..n -> 1..Len(DefinitionMatches)] : n \in 0..MaxRefineMatches} :
          tree = [i \in DOMAIN s |-> DefinitionMatches[s[i]]]
    /\ includeRefs = FALSE
    /\ pc = "legacy"
    /\ containers = EmptyMap
    /\ symbolRules = {}
    /\ matches = << >>
    /\ idx = 1
    /\ fileMap = EmptyMap
    /\ emitted = << >>
    /\ results = << >>
    /\ previous = << >>
    /\ scans = 1
    /\ binary = findAstGrepBinary({"ast-grep", "sg"})
    /\ runContainers = NormalRun
    /\ runSymbols = NormalRun
    /\ containerErr = "nil"
    /\ err = "nil"
    /\ spawned = 0
    /\ IdleScope
    /\ IdleSide

\* ScanDirectory on the tree, before ScanDirectoryV2 is called on it
ScanLegacy ==
    /\ pc = "legacy"
    /\ analyses' \in ScanDirectory(Root, runMatcher(legacyRuleFiles, tree))
    /\ pc' = "containers"
    /\ UNCHANGED << scanVars, qVars, lifeVars, cacheVars, callVars,
                    target, changedFiles, importers, hits, impacts >>

NextRefine == ScanLegacy \/ ContainerPass \/ SymbolPass \/ ProcessMatch \/ Return

SpecRefine == InitRefine /\ [][NextRefine]_vars

(***************************************************************************)
(* Properties                                                              *)
(***************************************************************************)

\* two symbols agree on all of (name, kind, role, line)
SameKey(a, b) ==
    a.Name = b.Name /\ a.Kind = b.Kind /\ a.Role = b.Role /\ a.Line = b.Line

\* the symbols appended for a file, with their matches, in the order appended
EmittedOf(path) == SelectSeq(emitted, LAMBDA e : e.file = path)

\* the containers recorded for a file, none when the map has no such key
ContainersOf(path) == IF path \in DOMAIN containers THEN containers[path] ELSE << >>

\* container c strictly encloses the line: start < line <= end
Encloses(c, line) == c.StartLine < line /\ line <= c.EndLine

\* the scope string of a container
ScopeName(c) == c.Kind \o ":" \o c.Name

\* the emitted symbol is a Go method whose text declares a receiver
GoMethodWithReceiver(e) ==
    e.lang = "go" /\ HasSuffix(e.m.ruleId, "-methods") /\ extractGoReceiverType(e.m.text) # ""

\* C1: in every FileAnalysis a scan returns, no two symbols agree on all of
\* (name, kind, role, line)
C1_NoDuplicateSymbols ==
    \A r \in 1..Len(results) :
        \A i, j \in 1..Len(results[r].Symbols) :
            SameKey(results[r].Symbols[i], results[r].Symbols[j]) => i = j

\* a scan has returned a file for which more symbols were appended than kept
C1_Witness ==
    /\ pc = "done"
    /\ \E r \in 1..Len(results) :
          /\ Len(results[r].Symbols) >= 1
          /\ Len(EmittedOf(results[r].Path)) > Len(results[r].Symbols)

\* C2: the second of two successive scans of the same tree, with the same
\* matcher output, returns exactly what the first returned
C2_SuccessiveScansIdentical ==
    (pc = "done" /\ scans > 1) => results = previous

\* the position in the matcher output of the first match that gave a symbol
\* with the key of s, among the symbols appended for the file
FirstSeen(E, s) == MinOf({E[k].idx : k \in {k2 \in 1..Len(E) : SameKey(E[k2].sym, s)}})

\* C3: in every FileAnalysis a scan returns, each symbol is the one of the
\* first match that produced its key, every key appended is present, and the
\* symbols stand in the order of those first matches in the matcher output
C3_FirstSeenOrder ==
    pc = "done" =>
        \A r \in 1..Len(results) :
            LET E == EmittedOf(results[r].Path)
                S == results[r].Symbols
            IN  /\ \A i \in 1..Len(S) :
                      \E k \in 1..Len(E) :
                          /\ S[i] = E[k].sym
                          /\ \A k2 \in 1..(k - 1) : ~SameKey(E[k2].sym, S[i])
                /\ \A k \in 1..Len(E) : \E i \in 1..Len(S) : SameKey(S[i], E[k].sym)
                /\ \A i, j \in 1..Len(S) : i < j => FirstSeen(E, S[i]) < FirstSeen(E, S[j])

\* a returned file keeps two symbols, and a later match that repeated a key
\* with another column was dropped
C3_Witness ==
    /\ pc = "done"
    /\ \E r \in 1..Len(results) :
          LET E == EmittedOf(results[r].Path)
          IN  /\ Len(results[r].Symbols) >= 2
              /\ \E k1, k2 \in 1..Len(E) :
                    k1 < k2 /\ SameKey(E[k1].sym, E[k2].sym) /\ E[k1].sym # E[k2].sym

\* the scope of the emitted symbol names a container of its file that starts
\* no earlier than c
SoundFor(e, c) ==
    \E i \in 1..Len(ContainersOf(e.file)) :
        /\ ContainersOf(e.file)[i].StartLine >= c.StartLine
        /\ e.sym.Scope = ScopeName(ContainersOf(e.file)[i])

\* C4 as stated: every emitted symbol whose line a container of its file
\* strictly encloses has the scope of a container starting no earlier
C4_ScopeSoundness ==
    \A k \in 1..Len(emitted) :
        \A i \in 1..Len(ContainersOf(emitted[k].file)) :
            Encloses(ContainersOf(emitted[k].file)[i], emitted[k].sym.Line)
                => SoundFor(emitted[k], ContainersOf(emitted[k].file)[i])

\* C4: every emitted symbol whose line a container of its file strictly
\* encloses has the scope of a container starting no earlier, unless it is a
\* Go method with a receiver, whose scope is "struct:" and the receiver type
C4_ScopeSoundnessExceptReceivers ==
    \A k \in 1..Len(emitted) :
        \A i \in 1..Len(ContainersOf(emitted[k].file)) :
            Encloses(ContainersOf(emitted[k].file)[i], emitted[k].sym.Line)
                => IF GoMethodWithReceiver(emitted[k])
                   THEN emitted[k].sym.Scope
                            = "struct:" \o extractGoReceiverType(emitted[k].m.text)
                   ELSE SoundFor(emitted[k], ContainersOf(emitted[k].file)[i])

\* a symbol that is no Go method lies inside a container and carries its scope
C4_Witness ==
    \E k \in 1..Len(emitted) :
        /\ ~GoMethodWithReceiver(emitted[k])
        /\ emitted[k].sym.Scope # "global"
        /\ \E i \in 1..Len(ContainersOf(emitted[k].file)) :
              Encloses(ContainersOf(emitted[k].file)[i], emitted[k].sym.Line)

\* no container of the file of the emitted symbol strictly encloses its line
NotEnclosed(e) ==
    \A i \in 1..Len(ContainersOf(e.file)) : ~Encloses(ContainersOf(e.file)[i], e.sym.Line)

\* the rule of the match reads its provisional scope from the line buffer
ReadsLineBuffer(e) ==
    \E s \in {"-methods", "-method-signatures", "-property-signatures", "-field-definitions"} :
        HasSuffix(e.m.ruleId, s)

\* C5 as stated: an emitted symbol that no container of its file strictly
\* encloses has scope "global"
C5_GlobalWhenNotEnclosed ==
    \A k \in 1..Len(emitted) :
        NotEnclosed(emitted[k]) => emitted[k].sym.Scope = "global"

\* C5: an emitted symbol that no container of its file strictly encloses has
\* scope "global", except that a Go method with a receiver has "struct:" and
\* the receiver type, and that in a file without any container a method,
\* method signature, property signature or field keeps the scope read from
\* the line buffer of its match
C5_GlobalWhenNotEnclosedExceptHeuristics ==
    \A k \in 1..Len(emitted) :
        NotEnclosed(emitted[k]) =>
            IF GoMethodWithReceiver(emitted[k])
            THEN emitted[k].sym.Scope = "struct:" \o extractGoReceiverType(emitted[k].m.text)
            ELSE IF Len(ContainersOf(emitted[k].file)) = 0 /\ ReadsLineBuffer(emitted[k])
                 THEN emitted[k].sym.Scope
                          = extractScopeFromContext(emitted[k].m.lines, emitted[k].lang)
            ELSE emitted[k].sym.Scope = "global"

\* a symbol on the start line of a container of its file, enclosed by none,
\* came out "global"
C5_Witness ==
    \E k \in 1..Len(emitted) :
        /\ NotEnclosed(emitted[k])
        /\ ~GoMethodWithReceiver(emitted[k])
        /\ emitted[k].sym.Scope = "global"
        /\ \E i \in 1..Len(ContainersOf(emitted[k].file)) :
              ContainersOf(emitted[k].file)[i].StartLine = emitted[k].sym.Line

\* the positions of the containers of the query that strictly enclose its line
InRange == {i \in 1..Len(qContainers) : Encloses(qContainers[i], qLine)}

\* the main rule of findContainingScope: "global" when no container encloses
\* the line, else the scope of an enclosing container of greatest start line
InnermostRule ==
    /\ InRange = {} => qScope = "global"
    /\ InRange # {} =>
          \E i \in InRange :
              /\ qScope = ScopeName(qContainers[i])
              /\ \A j \in InRange : qContainers[j].StartLine <= qContainers[i].StartLine

\* a query on a container's own start line gives "global" or an enclosing one
StartLineRule ==
    \A i \in 1..Len(qContainers) :
        qLine = qContainers[i].StartLine =>
            \/ qScope = "global"
            \/ \E j \in InRange : qScope = ScopeName(qContainers[j])

\* the answer is container i or one in range that starts no earlier
InsideOf(i) ==
    \E j \in InRange :
        /\ qContainers[j].StartLine >= qContainers[i].StartLine
        /\ qScope = ScopeName(qContainers[j])

\* C6 as stated: the innermost rule, the start line rule, and a query on the
\* end line of any container resolves inside that container
C6_InnermostContainer ==
    pc = "resolved" =>
        /\ InnermostRule
        /\ StartLineRule
        /\ \A i \in 1..Len(qContainers) : qLine = qContainers[i].EndLine => InsideOf(i)

\* C6: the innermost rule, the start line rule, and a query on the end line
\* of a container that ends after the line it starts on resolves inside it
C6_InnermostContainerMultiLine ==
    pc = "resolved" =>
        /\ InnermostRule
        /\ StartLineRule
        /\ \A i \in 1..Len(qContainers) :
              (qLine = qContainers[i].EndLine
                   /\ qContainers[i].StartLine < qContainers[i].EndLine) => InsideOf(i)

\* a query on the end line of the outer of two nested containers, which is
\* also inside the inner one, was answered with the inner one
C6_Witness ==
    /\ pc = "resolved"
    /\ Len(qContainers) = 2
    /\ qContainers[1].StartLine < qContainers[2].StartLine
    /\ qContainers[2].StartLine < qLine
    /\ qLine = qContainers[1].EndLine
    /\ qLine <= qContainers[2].EndLine
    /\ qScope = ScopeName(qContainers[2])
    /\ qScope # ScopeName(qContainers[1])

\* C7: an emitted symbol has role reference exactly when the rule id of its
\* match contains "ref-", and role definition otherwise
C7_RoleFollowsRuleId ==
    \A k \in 1..Len(emitted) :
        /\ emitted[k].sym.Role = RoleReference <=> Contains(emitted[k].m.ruleId, "ref-")
        /\ emitted[k].sym.Role # RoleReference => emitted[k].sym.Role = RoleDefinition

\* a symbol of a reference rule and a symbol of a definition rule were emitted
C7_Witness ==
    /\ \E k \in 1..Len(emitted) :
          emitted[k].sym.Role = RoleReference /\ Contains(emitted[k].m.ruleId, "ref-")
    /\ \E k \in 1..Len(emitted) :
          emitted[k].sym.Role = RoleDefinition /\ ~Contains(emitted[k].m.ruleId, "ref-")

\* C8 as stated: two emitted symbols of the same rule id have the same kind
C8_KindFunctionOfRuleId ==
    \A k1, k2 \in 1..Len(emitted) :
        emitted[k1].m.ruleId = emitted[k2].m.ruleId
            => emitted[k1].sym.Kind = emitted[k2].sym.Kind

\* C8: two emitted symbols of the same rule id have the same kind, except
\* under a "-lexical" rule, where the kind is constant when the trimmed match
\* text starts with "const " and variable otherwise
C8_KindFunctionOfRuleIdExceptLexical ==
    \A k1 \in 1..Len(emitted) :
        IF HasSuffix(emitted[k1].m.ruleId, "-lexical")
        THEN emitted[k1].sym.Kind
                 = IF HasPrefix(TrimSpace(emitted[k1].m.text), "const ")
                   THEN KindConstant ELSE KindVariable
        ELSE \A k2 \in 1..Len(emitted) :
                 emitted[k1].m.ruleId = emitted[k2].m.ruleId
                     => emitted[k1].sym.Kind = emitted[k2].sym.Kind

\* two matches of one rule with different text gave symbols, and a "-lexical"
\* match of a const declaration gave one too
C8_Witness ==
    /\ \E k1, k2 \in 1..Len(emitted) :
          /\ emitted[k1].m.ruleId = emitted[k2].m.ruleId
          /\ ~HasSuffix(emitted[k1].m.ruleId, "-lexical")
          /\ emitted[k1].m.text # emitted[k2].m.text
    /\ \E k \in 1..Len(emitted) :
          HasSuffix(emitted[k].m.ruleId, "-lexical") /\ emitted[k].sym.Kind = KindConstant

\* the names the extractor of a list-yielding rule reads from the match;
\* defined for the constants, vars, lexical and variable-declarations cases
ExtractedNames(m, lang) ==
    LET c == caseFrom(m.ruleId, 1)
    IN  CASE c = "-constants" -> extractConstantNames(m.text, lang)
          [] c = "-vars" -> extractVarNames(m.text, lang)
          [] c = "-lexical" -> lexicalNames(m, lang)
          [] c = "-variable-declarations" -> extractVarDeclarationNames(m.text, lang)
          [] OTHER -> << >>

\* the names of the symbols emitted for the match at position k of the output
EmittedNames(k) ==
    LET E == SelectSeq(emitted, LAMBDA e : e.idx = k)
    IN  [i \in 1..Len(E) |-> E[i].sym.Name]

\* C9: for every consumed match of a list-yielding rule, the symbols emitted
\* for it are one per extracted name, in order, at the position of the match
C9_OneSymbolPerName ==
    pc \in {"loop", "done"} =>
        \A k \in 1..(idx - 1) :
            caseFrom(matches[k].ruleId, 1)
                    \in {"-constants", "-vars", "-lexical", "-variable-declarations"}
                => /\ EmittedNames(k)
                        = ExtractedNames(matches[k],
                                         fileMap[Rel(Root, matches[k].file)].Language)
                   /\ \A j \in 1..Len(emitted) :
                         emitted[j].idx = k =>
                             /\ emitted[j].sym.Line = matches[k].line
                             /\ emitted[j].sym.Column = matches[k].column

\* C10: the symbol pass hands the matcher a reference rule exactly when
\* include_refs is set and never a container rule; without include_refs no
\* emitted symbol is a reference, and no emitted symbol is of a container rule
C10_SymbolPassRules ==
    /\ pc \in {"loop", "done"} =>
          /\ includeRefs <=>
                \E f \in symbolRules : \E id \in rulesOf(f) : Contains(id, "-ref-")
          /\ \A f \in symbolRules : \A id \in rulesOf(f) : ~Contains(id, "-container-")
          /\ \E f \in symbolRules : rulesOf(f) # {}
    /\ \A k \in 1..Len(emitted) :
          /\ ~Contains(emitted[k].m.ruleId, "-container-")
          /\ ~includeRefs => emitted[k].sym.Role # RoleReference

\* a scan without include_refs of a tree holding a reference match and a
\* container match has returned symbols
C10_Witness ==
    /\ pc = "done"
    /\ ~includeRefs
    /\ \E i \in 1..Len(tree) : Contains(tree[i].ruleId, "-ref-")
    /\ \E i \in 1..Len(tree) : Contains(tree[i].ruleId, "-container-")
    /\ Len(results) >= 1
    /\ Len(results[1].Symbols) >= 1

\* the match text opens with "func (" and closes the parenthetical
HasReceiverParenthetical(text) ==
    LET t == TrimPrefix(TrimSpace(text), "func ")
    IN  HasPrefix(TrimSpace(text), "func ") /\ HasPrefix(t, "(") /\ Index(t, ")") > 0

\* the last whitespace-separated token of the receiver parenthetical, without
\* a leading "*"; "" for an empty parenthetical
ReceiverToken(text) ==
    LET t == TrimPrefix(TrimSpace(text), "func ")
        parts == Fields(Slice(t, 1, Index(t, ")")))
    IN  IF Len(parts) = 0 THEN "" ELSE TrimPrefix(parts[Len(parts)], "*")

\* C11: an emitted symbol of a Go methods match whose text has a receiver
\* parenthetical has scope "struct:" and the last token of the receiver
\* without its "*", whatever the containers; any other Go symbol keeps the
\* scope the containers of its file give it
C11_GoReceiverScope ==
    \A k \in 1..Len(emitted) :
        emitted[k].lang = "go" =>
            IF HasSuffix(emitted[k].m.ruleId, "-methods")
                   /\ HasReceiverParenthetical(emitted[k].m.text)
            THEN emitted[k].sym.Scope = "struct:" \o ReceiverToken(emitted[k].m.text)
            ELSE emitted[k].sym.Scope
                     = IF Len(ContainersOf(emitted[k].file)) > 0
                       THEN findContainingScope(emitted[k].sym.Line,
                                                ContainersOf(emitted[k].file))
                       ELSE "global"

\* C12: a file in the directory of the target is never reported as an
\* importer of it by handleGetImporters, and never counted for a changed file
\* of its own directory by AnalyzeImpact
C12_ImporterAntiSelf ==
    /\ \A i \in DOMAIN importers : Dir(importers[i]) # Dir(target)
    /\ \A h \in hits : Dir(h.by) # Dir(h.changed)

\* the matcher run exited with non-zero status and left non-empty output
\* that is no JSON array
FailedRun(run) == run.exit # 0 /\ run.out \in {"message", "truncated"}

\* the matcher run exited with non-zero status and left no output, or output
\* that does not begin with "["
ToleratedRun(run) == run.exit # 0 /\ run.out \in {"empty", "message"}

\* the output of the run was handed to the JSON decoder and rejected
ParseFailed(run) == ~ToleratedRun(run) /\ run.out # "array"

\* the scan has returned after starting the matcher for the symbol pass
SymbolPassDone == pc = "done" /\ binary # "" /\ symbolRules # {}

\* C13 as stated: after a matcher run with non-zero exit status and non-empty
\* output that is no JSON array, in either pass, the scan returns an error
C13_MatcherFailedIsError ==
    SymbolPassDone =>
        (FailedRun(runContainers) \/ FailedRun(runSymbols) => err # "nil")

\* C13: a non-zero exit status with output that is empty or does not begin
\* with "[" is accepted: in the symbol pass the scan returns no records and no
\* error, in the container pass it goes on with no containers; the scan
\* returns an error exactly when the output of the symbol pass was handed to
\* the JSON decoder and rejected
C13_NonZeroExitTolerated ==
    SymbolPassDone =>
        /\ ToleratedRun(runSymbols) => err = "nil" /\ results = << >>
        /\ ToleratedRun(runContainers) => containerErr = "nil" /\ containers = EmptyMap
        /\ err # "nil" <=> ParseFailed(runSymbols)

C13_Witness ==
    /\ SymbolPassDone
    /\ runSymbols = [exit |-> 1, out |-> "message"]
    /\ Len(runMatcher(symbolRules, tree)) > 0
    /\ err = "nil"
    /\ results = << >>

\* C14 as stated: when the output of the container pass or of the symbol pass
\* is rejected by the JSON decoder, the scan returns an error and no records
C14_ParseFailureAborts ==
    SymbolPassDone =>
        (ParseFailed(runContainers) \/ ParseFailed(runSymbols)
             => err # "nil" /\ results = << >>)

\* C14: when the output of the symbol pass is rejected by the JSON decoder the
\* scan returns an error and no records; when the output of the container
\* pass is rejected, the error stays inside the scan, which goes on with no
\* containers
C14_SymbolParseFailureAborts ==
    SymbolPassDone =>
        /\ ParseFailed(runSymbols) => err = "json" /\ results = << >> /\ emitted = << >>
        /\ ParseFailed(runContainers) => containerErr = "json" /\ containers = EmptyMap
        /\ ParseFailed(runContainers) /\ ~ParseFailed(runSymbols) => err = "nil"

C14_Witness ==
    /\ SymbolPassDone
    /\ ParseFailed(runContainers)
    /\ containerErr = "json"
    /\ err = "nil"
    /\ Len(results) > 0

\* C15: when no matcher binary is on the executable path the scan returns an
\* error and has started no process
C15_UnavailableIsError ==
    pc = "done" /\ binary = "" => err # "nil" /\ spawned = 0

\* C16: a temporary rule directory that exists is eventually removed, on
\* every path of ScanForDeps and of the symbols mode
C16_TempDirEventuallyRemoved ==
    (tempDirs # {}) ~> (tempDirs = {})

\* C17: under every interleaving of the callers of get, the file of a path
\* is read from disk at most once, the goroutine that holds the lock to read
\* the disk and write the map is alone in get's locked sections, and all bytes
\* returned for one path are the same
C17_CacheReadOnce ==
    /\ \A p \in DOMAIN diskReads : diskReads[p] <= 1
    /\ \A g \in Goroutines :
           getPc[g] = "locked" =>
               \A h \in Goroutines \ {g} : getPc[h] \notin {"rlocked", "locked"}
    /\ \A x, y \in returned : x[1] = y[1] => x[2] = y[2]

C17_Witness ==
    /\ \E p \in DOMAIN diskReads : diskReads[p] = 1
    /\ \E g, h \in Goroutines :
           /\ g # h
           /\ getPc[g] = "locked"
           /\ getPc[h] = "lock"
           /\ getPath[g] = getPath[h]
           /\ getPath[g] \notin DOMAIN content
    /\ returned # {}

\* the canonical placeholders: "()", "new()", "(static block)" and the
\* bracketed forms
IsPlaceholder(name) ==
    \/ name \in {"()", "new()", "(static block)"}
    \/ HasPrefix(name, "[") /\ HasSuffix(name, "]")

\* [A-Za-z_][A-Za-z0-9_]*, and "#" as first character in TypeScript and
\* JavaScript only
MatchesIdentifier(name, lang) ==
    /\ name # ""
    /\ At(name, 0) \in Lower \cup Upper \cup {"_"}
                       \cup (IF lang \in {"typescript", "javascript"} THEN {"#"} ELSE {})
    /\ AllIn(From(name, 1), Lower \cup Upper \cup Digit \cup {"_"})

\* the match belongs to a rule family whose name is an import path
IsImportMatch(m) ==
    HasSuffix(m.ruleId, "-imports") \/ HasSuffix(m.ruleId, "-import-aliases")

\* C18: every emitted name that is no placeholder and no import path is an
\* identifier, with "#" allowed in front for TypeScript and JavaScript only
C18_ValidNames ==
    \A k \in 1..Len(emitted) :
        \/ IsPlaceholder(emitted[k].sym.Name)
        \/ IsImportMatch(emitted[k].m)
        \/ MatchesIdentifier(emitted[k].sym.Name, emitted[k].lang)

\* C19: no emitted, collected or returned symbol has an empty name, and the
\* scan reports no error when an extractor finds no name
C19_EmptyNamesDropped ==
    /\ \A k \in 1..Len(emitted) : emitted[k].sym.Name # ""
    /\ \A p \in DOMAIN fileMap :
           \A j \in DOMAIN fileMap[p].Symbols : fileMap[p].Symbols[j].Name # ""
    /\ \A i \in DOMAIN results :
           \A j \in DOMAIN results[i].Symbols : results[i].Symbols[j].Name # ""
    /\ err = "nil"

C19_Witness ==
    /\ pc = "done"
    /\ Len(matches) = 1
    /\ matches[1].text = ""
    /\ extractSymbolV2(matches[1], detectLangFromRuleID(matches[1].ruleId)).Name = ""
    /\ emitted = << >>
    /\ Len(results) = 1
    /\ results[1].Symbols = << >>
    /\ err = "nil"

\* "global", or a kind of container, a colon and an identifier
WellFormedScope(scope) ==
    \/ scope = "global"
    \/ \E kind \in {"class", "interface", "namespace", "enum", "struct"} :
          /\ HasPrefix(scope, kind \o ":")
          /\ LET name == From(scope, Len(kind) + 1)
             IN  /\ name # ""
                 /\ At(name, 0) \in Lower \cup Upper \cup {"_", "#"}
                 /\ AllIn(From(name, 1), Lower \cup Upper \cup Digit \cup {"_"})

\* C20: every emitted symbol has a well-formed scope, and every container in
\* the container map has a name: a container match without a name adds none
C20_WellFormedScopes ==
    /\ \A k \in 1..Len(emitted) : WellFormedScope(emitted[k].sym.Scope)
    /\ \A p \in DOMAIN containers :
           \A i \in DOMAIN containers[p] :
               /\ containers[p][i].Name # ""
               /\ WellFormedScope(containers[p][i].Kind \o ":" \o containers[p][i].Name)
    /\ \A i \in DOMAIN tree :
           tree[i] = AnonymousClass =>
               \A p \in DOMAIN containers :
                   \A j \in DOMAIN containers[p] :
                       containers[p][j].StartLine # AnonymousClass.line

C20_Witness ==
    /\ pc = "done"
    /\ \E i \in DOMAIN tree : tree[i] = AnonymousClass
    /\ "b.ts" \in DOMAIN containers
    /\ Len(emitted) = 1
    /\ emitted[1].sym.Scope = "class:A"

\* the 0-indexed line of the byte at offset p of the content
LineOfOffset(src, p) ==
    Cardinality({i \in 0..(p - 1) : At(src, i) = "\n"})

\* the offsets of the '{' on line startLine or after it
OpenOffsets(src, startLine) ==
    {p \in 0..(Len(src) - 1) :
        At(src, p) = "{" /\ LineOfOffset(src, p) >= startLine}

\* '{' minus '}' among the bytes at offsets p..q
Depth(src, p, q) ==
    Cardinality({i \in p..q : At(src, i) = "{"})
        - Cardinality({i \in p..q : At(src, i) = "}"})

\* the offsets of the '}' that balance the '{' at offset p: at most one
BalanceOffsets(src, p) ==
    {q \in (p + 1)..(Len(src) - 1) :
        /\ At(src, q) = "}"
        /\ Depth(src, p, q) = 0
        /\ \A r \in p..(q - 1) : Depth(src, p, r) > 0}

\* the index of the last line of the content
LastLine(src) == LineOfOffset(src, Len(src))

\* C21: findEndLine returns the line holding the '}' that balances the first
\* '{' at or after the start line, for every content and start line, and the
\* last line of the content when no '{' occurs from the start line on
C21_EndLineBalancesFirstBrace ==
    (pc = "ret" /\ call.fn = "findEndLine") =>
        LET opens == OpenOffsets(call.text, call.line)
        IN  IF opens = {} THEN ret = LastLine(call.text)
            ELSE \A q \in BalanceOffsets(call.text, MinOf(opens)) :
                     ret = LineOfOffset(call.text, q)

\* the first line of a text, cut before its first '{'
HeadOfFirstLine(text) ==
    LET line == IF Contains(text, "\n") THEN Slice(text, 0, Index(text, "\n")) ELSE text
    IN  IF Contains(line, "{") THEN Slice(line, 0, Index(line, "{")) ELSE line

\* the words of the modifier set among the words of a text, in text order
ModifiersInSourceOrder(text) ==
    SelectSeq(Fields(HeadOfFirstLine(text)),
              LAMBDA w : \E i \in DOMAIN ModifierWords : ModifierWords[i] = w)

\* C22: extractModifiers returns for TypeScript and JavaScript exactly the
\* modifier words that occur in the first line before the first '{', in the
\* order in which they occur in the text, and nothing for any other language
C22_ModifiersInSourceOrder ==
    (pc = "ret" /\ call.fn = "extractModifiers") =>
        ret = IF call.lang \in {"typescript", "javascript"}
              THEN ModifiersInSourceOrder(call.text)
              ELSE << >>

\* the kinds of each rule family
FamilyKinds(family) ==
    CASE family \in {"-imports", "-import-aliases"} -> {"import"}
      [] family \in {"-functions", "-arrow-functions", "-function-signatures",
                     "-generator-functions", "-function-expressions",
                     "-ref-function-calls"} -> {"function"}
      [] family \in {"-methods", "-method-signatures", "-call-signatures",
                     "-construct-signatures", "-static-blocks"} -> {"method"}
      [] family \in {"-structs", "-classes", "-ref-new-expressions"} -> {"class"}
      [] family = "-interfaces" -> {"interface"}
      [] family \in {"-types", "-ref-type-references"} -> {"type"}
      [] family = "-enums" -> {"enum"}
      [] family = "-namespaces" -> {"namespace"}
      [] family = "-constants" -> {"constant"}
      [] family \in {"-vars", "-variable-declarations"} -> {"variable"}
      [] family = "-lexical" -> {"constant", "variable"}
      [] family = "-field-definitions" -> {"field"}
      [] family \in {"-property-signatures", "-index-signatures"} -> {"property"}
      [] family = "-decorators" -> {"decorator"}
      [] OTHER -> {}

\* the rule families of the symbol and reference rules: every suffix that
\* determineKind, the switch of extractSymbolV2 or the if-chain of
\* ScanDirectory tests
RuleFamilies ==
    {"-imports", "-import-aliases", "-functions", "-arrow-functions",
     "-function-signatures", "-generator-functions", "-function-expressions",
     "-ref-function-calls", "-methods", "-method-signatures", "-call-signatures",
     "-construct-signatures", "-static-blocks", "-structs", "-classes",
     "-ref-new-expressions", "-interfaces", "-types", "-ref-type-references",
     "-enums", "-namespaces", "-constants", "-vars", "-variable-declarations",
     "-lexical", "-field-definitions", "-property-signatures",
     "-index-signatures", "-decorators", "-ambient-declarations"}

\* the families whose suffix ends the rule id
FamiliesOf(ruleID) == {f \in RuleFamilies : HasSuffix(ruleID, f)}

\* the most specific families of a rule id: those with the longest suffix
MostSpecific(ruleID) ==
    {f \in FamiliesOf(ruleID) : \A g \in FamiliesOf(ruleID) : Len(g) <= Len(f)}

\* the name the extractor of the variant's own family reads from the match
VariantName(family, m, lang) ==
    CASE family = "-arrow-functions" -> extractArrowFunctionName(m.lines, lang)
      [] family = "-function-signatures" -> extractFunctionSignatureName(m.text, lang)
      [] family = "-generator-functions" -> extractGeneratorFunctionName(m.text, lang)

\* C23: for every rule id exactly one extractor is selected, that of the
\* most specific rule family whose suffix ends the rule id: a match of
\* -arrow-functions, -function-signatures or -generator-functions gets the name
\* its own extractor reads and never that of the generic -functions extractor,
\* and the kind of every symbol is a kind of the family whose extractor was
\* selected. A rule id whose family the switch has no case for selects no
\* extractor: caseFrom is "" and the first conjunct fails
C23_MostSpecificFamily ==
    (pc \in {"loop", "done"} /\ Len(matches) = 1 /\ idx > 1) =>
        LET m == matches[1]
            lang == detectLangFromRuleID(m.ruleId)
        IN  /\ MostSpecific(m.ruleId) = {caseFrom(m.ruleId, 1)}
            /\ \A f \in {"-arrow-functions", "-function-signatures",
                         "-generator-functions"} :
                   HasSuffix(m.ruleId, f) =>
                       IF VariantName(f, m, lang) = "" THEN emitted = << >>
                       ELSE /\ Len(emitted) = 1
                            /\ emitted[1].sym.Name = VariantName(f, m, lang)
            /\ \A k \in DOMAIN emitted :
                   emitted[k].sym.Kind \in FamilyKinds(caseFrom(m.ruleId, 1))

\* where a scan stands with respect to its two matcher runs
InvocationsInOrder ==
    /\ pc = "containers" => spawned = 0 /\ containers = EmptyMap
    /\ pc = "symbols" => spawned = 1 /\ symbolRules = {} /\ matches = << >>
    /\ (pc \in {"loop", "done"} /\ binary # "") =>
           /\ spawned = 2
           /\ symbolRules # {}
           /\ \A e \in symbolRules : ~Contains(e, "-containers")
    /\ binary = "" => spawned = 0
    /\ (results # << >> \/ fileMap # EmptyMap \/ emitted # << >>) => spawned = 2

\* C24: a scan that finds a matcher binary runs the matcher exactly twice,
\* for the container rules and then for the symbol and reference rules; the
\* second run starts after the container map is complete, which no later step
\* changes, and no FileAnalysis exists before both runs are over
C24_TwoInvocationsInOrder ==
    /\ []InvocationsInOrder
    /\ [][pc # "containers" => containers' = containers]_vars

\* a scan with a matcher has returned records after both runs, the first of
\* which failed
C24_Witness ==
    /\ pc = "done"
    /\ binary # ""
    /\ runContainers.exit # 0
    /\ spawned = 2
    /\ results # << >>
    /\ err = "nil"

\* the container matches of the tree whose file cannot be read
UnreadableContainerMatches ==
    {i \in DOMAIN tree :
        /\ Contains(tree[i].ruleId, "-container-")
        /\ extractContainerName(tree[i].text, containerKind(tree[i].ruleId)) # ""
        /\ ~ReadFile(tree[i].file)[1]}

\* the number of newlines in a text
Newlines(text) == Cardinality({j \in 0..(Len(text) - 1) : At(text, j) = "\n"})

\* C25: when the file of a container match cannot be read, the container is
\* recorded with end line = start line + newlines of the match text, the
\* container pass returns no error, and the scan goes on to emit the symbols
C25_UnreadableFileEstimated ==
    (pc # "containers" /\ UnreadableContainerMatches # {}) =>
        /\ containerErr = "nil"
        /\ err = "nil"
        /\ \A i \in UnreadableContainerMatches :
               LET cs == ContainersOf(Rel(Root, tree[i].file))
               IN  \E k \in DOMAIN cs :
                      /\ cs[k].StartLine = tree[i].line
                      /\ cs[k].EndLine = tree[i].line + Newlines(tree[i].text)
                      /\ cs[k].Name = extractContainerName(tree[i].text, cs[k].Kind)
        /\ pc \in {"loop", "done"} =>
               matches = SelectSeq(tree, LAMBDA m : ~Contains(m.ruleId, "-container-"))
        /\ pc = "done" =>
               /\ Len(emitted) = Len(matches)
               /\ \A k \in DOMAIN emitted :
                      \E r \in DOMAIN results :
                          /\ results[r].Path = emitted[k].file
                          /\ \E j \in DOMAIN results[r].Symbols :
                                results[r].Symbols[j].Name = emitted[k].sym.Name

\* the class of the unreadable file was recorded on lines 2..4 and its method
\* was emitted inside it
C25_Witness ==
    /\ pc = "done"
    /\ UnreadableContainerMatches # {}
    /\ ~ReadFile("/r/gone.ts")[1]
    /\ "gone.ts" \in DOMAIN containers
    /\ containers["gone.ts"][1].EndLine = 4
    /\ \E k \in DOMAIN emitted :
          /\ emitted[k].file = "gone.ts"
          /\ emitted[k].sym.Name = "m"
          /\ emitted[k].sym.Scope = "class:G"
    /\ containerErr = "nil"
    /\ err = "nil"

\* the offsets of the commas of a text outside every (), {} and []
TopCommas(text) ==
    {i \in 0..(Len(text) - 1) :
        /\ At(text, i) = ","
        /\ Cardinality({j \in 0..(i - 1) : At(text, j) \in {"(", "{", "["}})
               = Cardinality({j \in 0..(i - 1) : At(text, j) \in {")", "}", "]"}})}

\* the k-th of them, from 1
TopComma(text, k) ==
    CHOOSE c \in TopCommas(text) : Cardinality({d \in TopCommas(text) : d < c}) = k - 1

\* the pieces between them, in text order
TopPieces(text) ==
    LET n == Cardinality(TopCommas(text))
    IN  [k \in 1..(n + 1) |->
            Slice(text,
                  IF k = 1 THEN 0 ELSE TopComma(text, k - 1) + 1,
                  IF k = n + 1 THEN Len(text) ELSE TopComma(text, k))]

\* C26: extractVarDeclarationNames splits the text after the leading var at
\* the commas outside every (), {} and [] only, and returns the names of the
\* pieces that have one, at most one a piece, in text order; a text that does
\* not start with var yields no names
C26_VarSplitAtDepthZero ==
    (pc = "ret" /\ call.fn = "extractVarDeclarationNames") =>
        IF HasPrefix(TrimSpace(call.text), "var ")
        THEN LET pieces == TopPieces(TrimPrefix(TrimSpace(call.text), "var "))
                 names == [k \in DOMAIN pieces |-> extractSingleVarName(pieces[k])]
             IN  ret = SelectSeq(names, LAMBDA name : name # "")
        ELSE ret = << >>

\* two declarators whose values hold commas inside a call and an array
C26_Witness ==
    /\ pc = "ret"
    /\ call.fn = "extractVarDeclarationNames"
    /\ call.text = "var f = g(1, 2), h = [3, 4]"
    /\ Cardinality(TopCommas(TrimPrefix(call.text, "var "))) = 1
    /\ ret = << "f", "h" >>

\* the position in the matcher output of the first match of a file
FirstMatchOf(path) ==
    MinOf({i \in DOMAIN matches : Rel(Root, matches[i].file) = path})

\* the language of the rule id of the first match of a file
FirstLanguage(path) == detectLangFromRuleID(matches[FirstMatchOf(path)].ruleId)

\* every file under construction has the language of its first match, and
\* every symbol emitted for it was extracted with that language
LanguageOfFirstMatch ==
    /\ \A p \in DOMAIN fileMap : fileMap[p].Language = FirstLanguage(p)
    /\ \A k \in DOMAIN emitted :
           LET e == emitted[k]
               s == extractSymbolV2(e.m, FirstLanguage(e.file))
           IN  /\ e.lang = FirstLanguage(e.file)
               /\ e.sym.Name = s.Name
               /\ e.sym.Kind = s.Kind
               /\ e.sym.Modifiers = s.Modifiers
    /\ \A r \in DOMAIN results : results[r].Language = FirstLanguage(results[r].Path)

\* C27: the language of a FileAnalysis is that of the rule-id prefix of the
\* first match of its file and no later match changes it; every later match
\* of the file, whatever its prefix, is extracted with that language
C27_LanguageFixedByFirstMatch ==
    /\ []LanguageOfFirstMatch
    /\ [][\A p \in DOMAIN fileMap :
             p \in DOMAIN fileMap' /\ fileMap'[p].Language = fileMap[p].Language]_vars

\* a file first matched by a JavaScript rule kept its language over a Go
\* match, whose text was read as JavaScript
C27_Witness ==
    /\ pc = "done"
    /\ Len(matches) >= 2
    /\ matches[1].ruleId = "js-functions"
    /\ matches[2].ruleId = "go-functions"
    /\ Len(results) = 1
    /\ results[1].Language = "javascript"
    /\ \E k \in DOMAIN emitted :
          /\ emitted[k].m.ruleId = "go-functions"
          /\ emitted[k].lang = "javascript"
          /\ emitted[k].sym.Name = extractFunctionName(emitted[k].m.text, "javascript")
          /\ emitted[k].sym.Name # extractFunctionName(emitted[k].m.text, "go")

\* C28: AnalyzeFile(p) returns the analysis of p itself: when the scan of the
\* directory of p has a record for p, that record is returned, whatever other
\* files have records, also one of the same base name in a subdirectory, and
\* whatever the order of the results; no record of another file is returned
C28_AnalyzeFileReturnsOwnRecord ==
    (pc = "ret" /\ call.fn = "AnalyzeFile") =>
        /\ \A i \in DOMAIN ret : ret[i].Path = Base(call.text)
        /\ (\E i \in DOMAIN analyses : analyses[i].Path = Base(call.text)) => Len(ret) = 1

\* the names ScanDirectory recorded for a file, over all its lists
LegacyNamesOf(path) ==
    UNION {{analyses[i][f][j] : j \in DOMAIN analyses[i][f]} :
              i \in {k \in DOMAIN analyses : analyses[k].Path = path}, f \in Categories}

\* the names of the symbols ScanDirectoryV2 returned for a file
SymbolNamesOf(path) ==
    UNION {{results[r].Symbols[j].Name : j \in DOMAIN results[r].Symbols} :
              r \in {k \in DOMAIN results : results[k].Path = path}}

\* C29: for a stream of definition-rule matches the names ScanDirectoryV2
\* emits as symbols of a file are the names ScanDirectory records for the
\* file in its category lists taken together
C29_V2NamesEqualLegacyNames ==
    pc = "done" =>
        \A path \in {analyses[i].Path : i \in DOMAIN analyses}
                        \cup {results[r].Path : r \in DOMAIN results} :
            SymbolNamesOf(path) = LegacyNamesOf(path)

\* the os.ReadFile calls made for a path, failed or not
ReadAttempts(reads, errs, path) ==
    (IF path \in DOMAIN reads THEN reads[path] ELSE 0)
        + (IF path \in DOMAIN errs THEN errs[path] ELSE 0)

\* C30: a get whose read fails returns the error and no bytes and leaves the
\* map as it was, so that only paths read with success have an entry; every
\* later get that finds no entry for the path reads the disk again
C30_FailedReadLeavesCache ==
    /\ [](\A p \in DOMAIN content : p \in DOMAIN diskReads /\ diskReads[p] >= 1)
    /\ [][getErrs' # getErrs => content' = content /\ returned' = returned]_vars
    /\ [][\A g \in Goroutines :
             (getPc[g] = "locked" /\ getPc'[g] = "idle"
                 /\ getPath[g] \notin DOMAIN content) =>
                 ReadAttempts(diskReads', getErrs', getPath[g])
                     = ReadAttempts(diskReads, getErrs, getPath[g]) + 1]_vars

\* a path whose read failed twice was read on a later get, next to the entry
\* of another path
C30_Witness ==
    \E p, q \in DOMAIN content :
        /\ p # q
        /\ p \in DOMAIN getErrs
        /\ getErrs[p] = 2
        /\ diskReads[p] = 1
        /\ \E x \in returned : x[1] = p /\ x[2] = content[p]

====
